---------------------------- MODULE Spec2Model ----------------------------
(***************************************************************************)
(* Model of sheldrake: the streaming signal parser (protocol.py) and the   *)
(* stream orchestrator (stream.py) that drives it over a cancellable       *)
(* inference stream.                                                       *)
(*                                                                         *)
(* Strings are sequences of one-character strings, so that the parser is   *)
(* modelled character by character as the code runs it.  An optional value *)
(* (Python's None or a value) is the empty set or a singleton.             *)
(***************************************************************************)
EXTENDS Integers, Sequences, FiniteSets, TLC

(***************************************************************************)
(* Optional values and string helpers                                      *)
(***************************************************************************)
None == {}

Some(v) == {v}

Val(o) == CHOOSE v \in o : TRUE

\* Python truthiness of an optional string: None and "" are falsy.
Truthy(o) == o # None /\ o # Some(<<>>)

StartsWith(s, p) == Len(p) <= Len(s) /\ SubSeq(s, 1, Len(p)) = p

EndsWith(s, p) == Len(p) <= Len(s) /\ SubSeq(s, Len(s) - Len(p) + 1, Len(s)) = p

Drop(s, n) == SubSeq(s, n + 1, Len(s))

\* str.split(sep) for a one-character separator.
RECURSIVE split(_, _)
split(s, sep) ==
    IF \E i \in 1..Len(s) : s[i] = sep
    THEN LET i == CHOOSE k \in 1..Len(s) :
                      s[k] = sep /\ \A j \in 1..(k - 1) : s[j] # sep
         IN  <<SubSeq(s, 1, i - 1)>> \o split(Drop(s, i), sep)
    ELSE <<s>>

\* str.strip() over the whitespace the model uses.
RECURSIVE strip(_)
strip(s) ==
    IF s # <<>> /\ Head(s) = " " THEN strip(Tail(s))
    ELSE IF s # <<>> /\ s[Len(s)] = " " THEN strip(SubSeq(s, 1, Len(s) - 1))
    ELSE s

(***************************************************************************)
(* protocol.py: constants and literals                                     *)
(***************************************************************************)
MAX_SIGNAL_LENGTH == 500

S_checkpoint == <<"c", "h", "e", "c", "k", "p", "o", "i", "n", "t", ":">>

S_backtrack == <<"b", "a", "c", "k", "t", "r", "a", "c", "k", ":">>

S_rephrase == <<"r", "e", "p", "h", "r", "a", "s", "e", ":">>

S_mode == <<"m", "o", "d", "e", ":">>

S_temp == <<"t", "e", "m", "p", ":">>

S_open == <<"<", "<">>

S_close == <<">", ">">>

_TAG_PREFIXES == {S_checkpoint, S_backtrack}

(***************************************************************************)
(* protocol.py: tokens                                                     *)
(***************************************************************************)
TextChunk(text) == [type |-> "TextChunk", text |-> text]

Checkpoint(id) == [type |-> "Checkpoint", id |-> id]

Backtrack(checkpoint_id, reason, rephrase, mode, temperature) ==
    [type |-> "Backtrack", checkpoint_id |-> checkpoint_id, reason |-> reason,
     rephrase |-> rephrase, mode |-> mode, temperature |-> temperature]

NoSignal == [type |-> "None"]

(***************************************************************************)
(* float(): temperatures are kept in tenths.  The model covers the         *)
(* literals "d", "d.d" and their negatives; every other string the model   *)
(* feeds (letters, empty) raises ValueError in Python, which is None here. *)
(***************************************************************************)
DigitChars == {"0", "1", "2", "3", "4", "5", "6", "7", "8", "9"}

DigitVal(c) ==
    CASE c = "0" -> 0 [] c = "1" -> 1 [] c = "2" -> 2 [] c = "3" -> 3
      [] c = "4" -> 4 [] c = "5" -> 5 [] c = "6" -> 6 [] c = "7" -> 7
      [] c = "8" -> 8 [] c = "9" -> 9

UnsignedFloat(s) ==
    IF Len(s) = 1 /\ s[1] \in DigitChars THEN Some(10 * DigitVal(s[1]))
    ELSE IF Len(s) = 3 /\ s[1] \in DigitChars /\ s[2] = "." /\ s[3] \in DigitChars
         THEN Some(10 * DigitVal(s[1]) + DigitVal(s[3]))
    ELSE None

float(s) ==
    IF s # <<>> /\ Head(s) = "-"
    THEN LET u == UnsignedFloat(Tail(s))
         IN  IF u = None THEN None ELSE Some(0 - Val(u))
    ELSE UnsignedFloat(s)

(***************************************************************************)
(* protocol.py: _parse_backtrack_extras, _parse_signal_body                *)
(***************************************************************************)
RECURSIVE ExtrasLoop(_, _)
ExtrasLoop(parts, acc) ==
    IF parts = <<>> THEN acc
    ELSE LET part == Head(parts)
             nxt ==
                 IF StartsWith(part, S_rephrase)
                 THEN [acc EXCEPT !.rephrase = Some(Drop(part, Len(S_rephrase)))]
                 ELSE IF StartsWith(part, S_mode)
                 THEN [acc EXCEPT !.mode = Some(Drop(part, Len(S_mode)))]
                 ELSE IF StartsWith(part, S_temp)
                 THEN LET f == float(Drop(part, Len(S_temp)))
                      IN  IF f = None THEN acc ELSE [acc EXCEPT !.temperature = f]
                 ELSE acc
         IN  ExtrasLoop(Tail(parts), nxt)

_parse_backtrack_extras(parts) ==
    ExtrasLoop(parts, [rephrase |-> None, mode |-> None, temperature |-> None])

\* mutant: a backtrack with an empty reason is accepted
_parse_signal_body_EmptyReason(body) ==
    IF StartsWith(body, S_checkpoint)
    THEN LET cp_id == Drop(body, Len(S_checkpoint))
         IN  IF cp_id # <<>> THEN Checkpoint(cp_id) ELSE NoSignal
    ELSE IF StartsWith(body, S_backtrack)
    THEN LET rest == Drop(body, Len(S_backtrack))
             parts == split(rest, "|")
         IN  IF rest = <<>> THEN NoSignal
             ELSE IF Len(parts) < 2 \/ parts[1] = <<>> THEN NoSignal
             ELSE LET ex == _parse_backtrack_extras(Drop(parts, 2))
                  IN  Backtrack(parts[1], parts[2], ex.rephrase, ex.mode, ex.temperature)
    ELSE NoSignal

_parse_signal_body(body) ==
    IF StartsWith(body, S_checkpoint)
    THEN LET cp_id == Drop(body, Len(S_checkpoint))
         IN  IF cp_id # <<>> THEN Checkpoint(cp_id) ELSE NoSignal
    ELSE IF StartsWith(body, S_backtrack)
    THEN LET rest == Drop(body, Len(S_backtrack))
             parts == split(rest, "|")
         IN  IF rest = <<>> THEN NoSignal
             ELSE IF Len(parts) < 2 \/ parts[1] = <<>> \/ parts[2] = <<>> THEN NoSignal
             ELSE LET ex == _parse_backtrack_extras(Drop(parts, 2))
                  IN  Backtrack(parts[1], parts[2], ex.rephrase, ex.mode, ex.temperature)
    ELSE NoSignal

(***************************************************************************)
(* protocol.py: SignalParser.  A parser is [state, buffer, text_buffer];   *)
(* while a chunk is fed the record also carries the result list.           *)
(***************************************************************************)
NewParser == [state |-> "TEXT", buffer |-> <<>>, text_buffer |-> <<>>]

_could_be_tag_prefix(s) == \E prefix \in _TAG_PREFIXES : StartsWith(prefix, s)

_is_complete_tag_prefix(s) == \E prefix \in _TAG_PREFIXES : s = prefix

_feed_text(ps, char) ==
    IF char = "<" THEN [ps EXCEPT !.state = "MAYBE_OPEN"]
    ELSE [ps EXCEPT !.text_buffer = Append(@, char)]

\* mutant: the '<' that was held back is forgotten
_feed_maybe_open_DropsLt(ps, char) ==
    IF char = "<" THEN [ps EXCEPT !.state = "TAG_CHECK", !.buffer = <<>>]
    ELSE [ps EXCEPT !.text_buffer = Append(@, char), !.state = "TEXT"]

_feed_maybe_open(ps, char) ==
    IF char = "<" THEN [ps EXCEPT !.state = "TAG_CHECK", !.buffer = <<>>]
    ELSE [ps EXCEPT !.text_buffer = @ \o <<"<", char>>, !.state = "TEXT"]

\* mutant: a buffer that is no tag prefix goes to the text without its "<<"
_feed_tag_check_NoOpen(ps, char) ==
    LET buf == Append(ps.buffer, char)
    IN  IF _could_be_tag_prefix(buf)
        THEN IF _is_complete_tag_prefix(buf)
             THEN [ps EXCEPT !.buffer = buf, !.state = "IN_SIGNAL"]
             ELSE [ps EXCEPT !.buffer = buf]
        ELSE [ps EXCEPT !.text_buffer = @ \o buf,
                        !.buffer = <<>>, !.state = "TEXT"]

_feed_tag_check(ps, char) ==
    LET buf == Append(ps.buffer, char)
    IN  IF _could_be_tag_prefix(buf)
        THEN IF _is_complete_tag_prefix(buf)
             THEN [ps EXCEPT !.buffer = buf, !.state = "IN_SIGNAL"]
             ELSE [ps EXCEPT !.buffer = buf]
        ELSE [ps EXCEPT !.text_buffer = @ \o S_open \o buf,
                        !.buffer = <<>>, !.state = "TEXT"]

_complete_signal(ps) ==
    LET body == SubSeq(ps.buffer, 1, Len(ps.buffer) - 2)
        signal == _parse_signal_body(body)
    IN  IF signal # NoSignal
        THEN [ps EXCEPT
                !.result = (IF ps.text_buffer # <<>>
                            THEN Append(@, TextChunk(ps.text_buffer)) ELSE @)
                           \o <<signal>>,
                !.text_buffer = <<>>, !.buffer = <<>>, !.state = "TEXT"]
        ELSE [ps EXCEPT !.text_buffer = @ \o S_open \o ps.buffer,
                        !.buffer = <<>>, !.state = "TEXT"]

_feed_in_signal(ps, char) ==
    LET buf == Append(ps.buffer, char)
    IN  IF Len(buf) > MAX_SIGNAL_LENGTH
        THEN [ps EXCEPT !.text_buffer = @ \o S_open \o buf,
                        !.buffer = <<>>, !.state = "TEXT"]
        ELSE IF EndsWith(buf, S_close)
        THEN _complete_signal([ps EXCEPT !.buffer = buf])
        ELSE [ps EXCEPT !.buffer = buf]

FeedChar(ps, char) ==
    CASE ps.state = "TEXT" -> _feed_text(ps, char)
      [] ps.state = "MAYBE_OPEN" -> _feed_maybe_open(ps, char)
      [] ps.state = "TAG_CHECK" -> _feed_tag_check(ps, char)
      [] ps.state = "IN_SIGNAL" -> _feed_in_signal(ps, char)

_State == {"TEXT", "MAYBE_OPEN", "TAG_CHECK", "IN_SIGNAL"}

\* for char in chunk: handlers[self._state](char, result).  The chunk is
\* halved, and the parser after the first half is computed before the second
\* half is fed, so that the evaluation of a long chunk stays shallow.
RECURSIVE FeedChars(_, _)
FeedChars(ps, chunk) ==
    IF chunk = <<>> THEN ps
    ELSE IF Len(chunk) = 1 THEN FeedChar(ps, chunk[1])
    ELSE LET h == Len(chunk) \div 2
             mid == FeedChars(ps, SubSeq(chunk, 1, h))
         IN  CASE mid.state \in _State ->
                      FeedChars(mid, SubSeq(chunk, h + 1, Len(chunk)))

\* mutant: a '<' held back at the end of a chunk is given out as text
feed_ReleasesLt(p, chunk) ==
    LET ps == FeedChars([state |-> p.state, buffer |-> p.buffer,
                         text_buffer |-> p.text_buffer, result |-> <<>>], chunk)
        text == IF ps.state = "MAYBE_OPEN" THEN Append(ps.text_buffer, "<")
                ELSE ps.text_buffer
        emit == text # <<>> /\ ps.state \in {"TEXT", "MAYBE_OPEN"}
    IN  [parser |-> [state |-> IF emit THEN "TEXT" ELSE ps.state,
                     buffer |-> ps.buffer,
                     text_buffer |-> IF emit THEN <<>> ELSE ps.text_buffer],
         result |-> IF emit THEN Append(ps.result, TextChunk(text))
                    ELSE ps.result]

\* SignalParser.feed: [parser |-> the parser afterwards, result |-> tokens]
feed(p, chunk) ==
    LET ps == FeedChars([state |-> p.state, buffer |-> p.buffer,
                         text_buffer |-> p.text_buffer, result |-> <<>>], chunk)
        emit == ps.text_buffer # <<>> /\ ps.state = "TEXT"
    IN  [parser |-> [state |-> ps.state, buffer |-> ps.buffer,
                     text_buffer |-> IF emit THEN <<>> ELSE ps.text_buffer],
         result |-> IF emit THEN Append(ps.result, TextChunk(ps.text_buffer))
                    ELSE ps.result]

\* mutant: flush() gives the pending text out and leaves the parser as it was
flush_NoReset(p) ==
    LET pending ==
            CASE p.state = "MAYBE_OPEN" -> p.text_buffer \o <<"<">>
              [] p.state = "TAG_CHECK" -> p.text_buffer \o S_open \o p.buffer
              [] p.state = "IN_SIGNAL" -> p.text_buffer \o S_open \o p.buffer
              [] OTHER -> p.text_buffer
    IN  [parser |-> p,
         result |-> IF pending # <<>> THEN <<TextChunk(pending)>> ELSE <<>>]

\* SignalParser.flush: [parser |-> the parser afterwards, result |-> tokens]
flush(p) ==
    LET pending ==
            CASE p.state = "MAYBE_OPEN" -> p.text_buffer \o <<"<">>
              [] p.state = "TAG_CHECK" -> p.text_buffer \o S_open \o p.buffer
              [] p.state = "IN_SIGNAL" -> p.text_buffer \o S_open \o p.buffer
              [] OTHER -> p.text_buffer
    IN  [parser |-> NewParser,
         result |-> IF pending # <<>> THEN <<TextChunk(pending)>> ELSE <<>>]

(***************************************************************************)
(* config.py: settings.  Temperatures are in tenths.  max_backtracks and   *)
(* min_tokens_between_signals are set small (the defaults are 8 and 20).   *)
(***************************************************************************)
max_backtracks == 2

min_tokens_between_signals == 2

M_precise == <<"p", "r", "e", "c", "i", "s", "e">>

M_exploratory == <<"e", "x", "p", "l", "o", "r", "a", "t", "o", "r", "y">>

M_adversarial == <<"a", "d", "v", "e", "r", "s", "a", "r", "i", "a", "l">>

M_balanced == <<"b", "a", "l", "a", "n", "c", "e", "d">>

default_mode == M_balanced

max_hint_length == 200

modes ==
    [m \in {M_precise, M_exploratory, M_adversarial, M_balanced} |->
        CASE m = M_precise -> 2
          [] m = M_exploratory -> 9
          [] m = M_adversarial -> 7
          [] m = M_balanced -> 6]

(***************************************************************************)
(* Inputs: the bounds, the user messages and the deltas a stream yields    *)
(***************************************************************************)
MaxRuns == 2

MaxDeltas == 4

UserMessages == {<<"h", "i">>}

D_space == <<" ">>

D_cpA == S_open \o S_checkpoint \o <<"a">> \o S_close

D_xyCpB == <<"x", "y">> \o S_open \o S_checkpoint \o <<"b">> \o S_close

\* a backtrack with a known mode and no temperature, then text and an
\* unfinished '<' in the same delta
D_btA == S_open \o S_backtrack \o <<"a", "|", "r", "|">> \o S_mode \o M_exploratory
         \o S_close \o <<"z", "<">>

\* a backtrack with a known mode and the highest temperature in range, then
\* a checkpoint tag in the same delta
D_btB == S_open \o S_backtrack \o <<"b", "|", "q", "|">> \o S_mode \o M_precise
         \o <<"|">> \o S_temp \o <<"1", ".", "0">> \o S_close
         \o S_open \o S_checkpoint \o <<"a">> \o S_close

\* a backtrack with an unknown mode and an out-of-range temperature
D_btBad == S_open \o S_backtrack \o <<"a", "|", "s", "|">> \o S_mode \o <<"z", "z">>
           \o <<"|">> \o S_temp \o <<"1", ".", "5">> \o S_close

Deltas == {D_space, D_cpA, D_xyCpB, D_btA, D_btB, D_btBad}

\* str(exc) of what inference.stream raises, and of what a callback raises
InferenceErrors == {<<"n", "e", "t">>}

CallbackErrors == {<<"c", "b">>}

(***************************************************************************)
(* stream.py: literals                                                     *)
(***************************************************************************)
BUDGET_EXHAUSTED ==
    <<" ", "[", "b", "a", "c", "k", "t", "r", "a", "c", "k", " ",
      "b", "u", "d", "g", "e", "t", " ",
      "e", "x", "h", "a", "u", "s", "t", "e", "d", "]", " ">>

CONTINUE_PROMPT ==
    <<"Continue your response directly from where you left off. ",
      "Do not repeat, summarize, or acknowledge this instruction. ",
      "Pick up mid-sentence if needed.">>

S_checkpoint_raw(id) == S_open \o S_checkpoint \o id \o S_close

\* "Inference error: " (line 153)
INFERENCE_ERROR ==
    <<"I", "n", "f", "e", "r", "e", "n", "c", "e", " ", "e", "r", "r", "o", "r",
      ":", " ">>

EmptyDict == [k \in {} |-> k]

Message(role, content) == [role |-> role, content |-> content]

(***************************************************************************)
(* State                                                                   *)
(***************************************************************************)
VARIABLES
    messages,     \* StreamProcessor.messages: the conversation
    ctx,          \* the _RunCtx of the current run
    parser,       \* the SignalParser of the current attempt
    pending,      \* tokens of the current feed()/flush() not yet processed
    phase,        \* "feed": inside _inference_loop; "flush": after it
    pc,           \* where run() is suspended, or "idle" / "exited"
    outcome,      \* how the last run() left: "returned", "raised", "cancelled"
    calls,        \* the callbacks and inference calls made by the current run
    messages0,    \* the conversation on entry to the current run
    user_message, \* the argument of the current run
    stale,        \* ids admitted in this run whose record is no longer stored
    last_delta,   \* the delta the stream yielded last in this run
    runs,         \* run() calls made so far
    deltas_used,  \* deltas yielded so far
    admit_marks,  \* for each checkpoint admitted in this attempt, the number
                  \* of characters of text events the attempt had delivered
    prev_run,     \* what the previous run left in its _RunCtx
    admission,    \* the ids of the stored records, in the order in which the
                  \* records were admitted
    p_input,      \* parser on its own: the string that is fed to it
    p_pos,        \* ... the number of its characters fed so far
    p_parser,     \* ... the SignalParser
    p_out,        \* ... the events returned so far, each with its literal,
                  \* adjacent text merged
    p_done,       \* ... whether flush() was called
    _active_stream,   \* InferenceManager on its own: its _active_stream
    streams,          \* ... the stream() calls made: generator and SDK stream
    cancel_pc,        \* ... "idle", or "await_close" inside cancel()
    cancels,          \* ... cancel() calls made so far
    last_op,          \* ... the call on the manager that was made last
    closed_by_cancel, \* ... the stream the last cancel() called close() on
    cancel_raised,    \* ... whether the last cancel() raised
    w_conv,       \* the app's workers on one processor: its messages, each
                  \* turn with the worker that appended it
    workers,      \* ... the _run_inference workers started so far
    l_messages,   \* pali.stream.StreamProcessor on its own: its messages
    l_pc,         \* ... where its run() is suspended, or "idle" / "exited"
    l_outcome,    \* ... how its last run() left
    l_messages0,  \* ... the messages on entry to the current run
    l_runs,       \* ... run() calls made so far
    l_acc,        \* ... ctx.accumulated of the current run
    l_bt          \* ... ctx.bt_count of the current run

vars == <<messages, ctx, parser, pending, phase, pc, outcome, calls, messages0,
          user_message, stale, last_delta, runs, deltas_used, admit_marks,
          prev_run, admission, p_input, p_pos, p_parser, p_out, p_done,
          _active_stream, streams, cancel_pc, cancels, last_op,
          closed_by_cancel, cancel_raised, w_conv, workers,
          l_messages, l_pc, l_outcome, l_messages0, l_runs, l_acc, l_bt>>

wvars == <<w_conv, workers>>

lvars == <<l_messages, l_pc, l_outcome, l_messages0, l_runs, l_acc, l_bt>>

pvars == <<p_input, p_pos, p_parser, p_out, p_done>>

mvars == <<_active_stream, streams, cancel_pc, cancels, last_op,
           closed_by_cancel, cancel_raised>>

ovars == <<messages, ctx, parser, pending, phase, pc, outcome, calls, messages0,
           user_message, stale, last_delta, runs, deltas_used, admit_marks,
           prev_run, admission>>

\* _RunCtx as run() constructs it (lines 88-91)
NewRunCtx ==
    [accumulated |-> <<>>, accumulated_raw |-> <<>>, checkpoints |-> EmptyDict,
     chars_since |-> min_tokens_between_signals, hints |-> <<>>, bt_count |-> 0,
     mode |-> default_mode, temperature |-> None]

AwaitPoints ==
    {"await_delta", "await_on_text", "await_on_text_exhausted", "await_cancel",
     "await_on_backtrack", "await_on_error", "await_on_done"}

\* The run as one record, so that the steps of run() compose as operators.
Cur ==
    [messages |-> messages, ctx |-> ctx, parser |-> parser, pending |-> pending,
     phase |-> phase, pc |-> pc, outcome |-> outcome, calls |-> calls]

Become(s) ==
    /\ messages' = s.messages
    /\ ctx' = s.ctx
    /\ parser' = s.parser
    /\ pending' = s.pending
    /\ phase' = s.phase
    /\ pc' = s.pc
    /\ outcome' = s.outcome
    /\ calls' = s.calls
    /\ UNCHANGED pvars
    /\ UNCHANGED mvars
    /\ UNCHANGED <<wvars, lvars>>

Call(s, ev) == [s EXCEPT !.calls = Append(@, ev)]

(***************************************************************************)
(* stream.py: StreamProcessor.run, the finally block                       *)
(***************************************************************************)
\* mutants: the last turn is popped whatever its role; nothing is popped
Finally_NoRoleCheck(msgs) ==
    IF msgs # <<>> THEN SubSeq(msgs, 1, Len(msgs) - 1) ELSE msgs

Finally_NoPop(msgs) == msgs

Finally(msgs) ==
    IF msgs # <<>> /\ msgs[Len(msgs)].role = "user"
    THEN SubSeq(msgs, 1, Len(msgs) - 1)
    ELSE msgs

\* run() is left: by return, by an exception, or by CancelledError
Exit(s, how) ==
    [s EXCEPT !.messages = Finally(@), !.pc = "exited", !.outcome = how]

(***************************************************************************)
(* stream.py: _build_messages and the top of the _inference_loop           *)
(***************************************************************************)
\* mutant: the rewound text is sent without the "Continue ..." turn
_build_messages_AssistantOnly(msgs, accumulated_text) ==
    IF strip(accumulated_text) # <<>>
    THEN msgs \o <<Message("assistant", accumulated_text)>>
    ELSE msgs

\* mutant: the text is tested without trimming it
_build_messages_NoTrim(msgs, accumulated_text) ==
    IF accumulated_text # <<>>
    THEN msgs \o <<Message("assistant", accumulated_text),
                   Message("user", CONTINUE_PROMPT)>>
    ELSE msgs

\* lines 234-253
_build_messages(msgs, accumulated_text) ==
    IF strip(accumulated_text) # <<>>
    THEN msgs \o <<Message("assistant", accumulated_text),
                   Message("user", CONTINUE_PROMPT)>>
    ELSE msgs

(***************************************************************************)
(* system_prompt.py: the prompt is the fixed template with its last        *)
(* placeholder replaced by the generation state section and, for a         *)
(* non-empty hint list, the "Constraints for This Attempt" section.  The   *)
(* prompt is modelled by those two sections.                               *)
(***************************************************************************)
\* str.isprintable() is false for the control characters
ControlChars == {"\n", "\t", "\r"}

sanitize_hint(hint, max_length) ==
    LET cleaned == SelectSeq(hint, LAMBDA c : c \notin ControlChars)
    IN  SubSeq(cleaned, 1, IF Len(cleaned) < max_length THEN Len(cleaned)
                           ELSE max_length)

_format_generation_state(mode, temperature, modes_) ==
    [temperature |-> temperature, mode |-> mode, modes |-> modes_]

\* constraints: None when the section is absent, else its "- Avoid:" lines
build_system_prompt(hints, max_length, mode, temperature, modes_) ==
    [state |-> _format_generation_state(mode, temperature, modes_),
     constraints |->
         IF hints # <<>>
         THEN Some([i \in 1..Len(hints) |-> sanitize_hint(hints[i], max_length)])
         ELSE None]

\* mutant: inference.stream is given the effective temperature
LoopTop_PassesEffective(s) ==
    IF s.ctx.temperature = None /\ s.ctx.mode \notin DOMAIN modes
    THEN Exit(s, "raised")
    ELSE LET effective_temp ==
                 IF s.ctx.temperature = None THEN modes[s.ctx.mode]
                 ELSE Val(s.ctx.temperature)
             system == build_system_prompt(s.ctx.hints, max_hint_length,
                                           s.ctx.mode, effective_temp, modes)
             ev == [op |-> "stream",
                    messages |-> _build_messages(s.messages, s.ctx.accumulated),
                    system |-> system, hints |-> s.ctx.hints, mode |-> s.ctx.mode,
                    temperature |-> Some(effective_temp)]
         IN  Call([s EXCEPT !.parser = NewParser, !.pending = <<>>,
                            !.phase = "feed", !.pc = "await_delta"], ev)

\* mutant: the next attempt goes on with the parser and tokens of the last
LoopTop_KeepsParser(s) ==
    IF s.ctx.temperature = None /\ s.ctx.mode \notin DOMAIN modes
    THEN Exit(s, "raised")
    ELSE LET effective_temp ==
                 IF s.ctx.temperature = None THEN modes[s.ctx.mode]
                 ELSE Val(s.ctx.temperature)
             system == build_system_prompt(s.ctx.hints, max_hint_length,
                                           s.ctx.mode, effective_temp, modes)
             ev == [op |-> "stream",
                    messages |-> _build_messages(s.messages, s.ctx.accumulated),
                    system |-> system, hints |-> s.ctx.hints, mode |-> s.ctx.mode,
                    temperature |-> s.ctx.temperature]
         IN  Call([s EXCEPT !.phase = "feed", !.pc = "await_delta"], ev)

\* lines 123-145: build the request, make a fresh parser, call inference.stream.
\* settings.modes[ctx.mode] raises KeyError for an unknown mode.
LoopTop(s) ==
    IF s.ctx.temperature = None /\ s.ctx.mode \notin DOMAIN modes
    THEN Exit(s, "raised")
    ELSE LET effective_temp ==
                 IF s.ctx.temperature = None THEN modes[s.ctx.mode]
                 ELSE Val(s.ctx.temperature)
             system == build_system_prompt(s.ctx.hints, max_hint_length,
                                           s.ctx.mode, effective_temp, modes)
             ev == [op |-> "stream",
                    messages |-> _build_messages(s.messages, s.ctx.accumulated),
                    system |-> system, hints |-> s.ctx.hints, mode |-> s.ctx.mode,
                    temperature |-> s.ctx.temperature]
         IN  Call([s EXCEPT !.parser = NewParser, !.pending = <<>>,
                            !.phase = "feed", !.pc = "await_delta"], ev)

\* mutant: the exception is not caught and leaves run()
InvokeOnError_Propagates(s, exc) == Exit(s, "raised")

\* lines 151-154: except Exception as exc: on_error(f"Inference error: {exc}")
InvokeOnError(s, exc) ==
    Call([s EXCEPT !.pc = "await_on_error"],
         [op |-> "on_error", msg |-> INFERENCE_ERROR \o exc])

(***************************************************************************)
(* stream.py: _process_token, _handle_checkpoint, _handle_backtrack        *)
(***************************************************************************)
\* lines 164-166
TextToken(c, t) ==
    [c EXCEPT !.accumulated = @ \o t, !.accumulated_raw = @ \o t,
              !.chars_since = @ + Len(t)]

\* mutant: every checkpoint is stored
_handle_checkpoint_Ungated(cp, c) ==
    LET raw == c.accumulated_raw \o S_checkpoint_raw(cp.id)
        rec == [id |-> cp.id, position |-> Len(c.accumulated),
                accumulated_text |-> c.accumulated, accumulated_raw |-> raw]
    IN  [c EXCEPT !.accumulated_raw = raw,
                  !.checkpoints = [k \in DOMAIN @ \cup {cp.id} |->
                                      IF k = cp.id THEN rec ELSE @[k]],
                  !.chars_since = 0]

\* mutant: an id that is already stored keeps its first record
_handle_checkpoint_KeepsFirst(cp, c) ==
    IF c.chars_since < min_tokens_between_signals THEN c
    ELSE LET raw == c.accumulated_raw \o S_checkpoint_raw(cp.id)
             rec == [id |-> cp.id, position |-> Len(c.accumulated),
                     accumulated_text |-> c.accumulated, accumulated_raw |-> raw]
         IN  [c EXCEPT !.accumulated_raw = raw,
                       !.checkpoints = [k \in DOMAIN @ \cup {cp.id} |->
                                           IF k \in DOMAIN @ THEN @[k] ELSE rec],
                       !.chars_since = 0]

\* lines 174-187
_handle_checkpoint(cp, c) ==
    IF c.chars_since < min_tokens_between_signals THEN c
    ELSE LET raw == c.accumulated_raw \o S_checkpoint_raw(cp.id)
             rec == [id |-> cp.id, position |-> Len(c.accumulated),
                     accumulated_text |-> c.accumulated, accumulated_raw |-> raw]
         IN  [c EXCEPT !.accumulated_raw = raw,
                       !.checkpoints = [k \in DOMAIN @ \cup {cp.id} |->
                                           IF k = cp.id THEN rec ELSE @[k]],
                       !.chars_since = 0]

\* mutant: the fields are taken as they come
Validate_AsGiven(bt) == bt

\* mutant: only the temperature is validated
Validate_TemperatureOnly(bt) ==
    [bt EXCEPT
       !.temperature = IF @ # None /\ ~(0 <= Val(@) /\ Val(@) <= 10)
                       THEN None ELSE @]

\* lines 204-210: an unknown mode and an out-of-range temperature are discarded
Validate(bt) ==
    [bt EXCEPT
       !.mode = IF Truthy(@) /\ Val(@) \notin DOMAIN modes THEN None ELSE @,
       !.temperature = IF @ # None /\ ~(0 <= Val(@) /\ Val(@) <= 10)
                       THEN None ELSE @]

\* mutant: nothing is pruned
Prune_KeepAll(cps, cp) == cps

\* mutant: the target is dropped with the records after it
Prune_DropsTarget(cps, cp) ==
    LET keep == {k \in DOMAIN cps : cps[k].position < cp.position}
    IN  [k \in keep |-> cps[k]]

\* mutant: the records after the target are the ones kept
Prune_KeepsLater(cps, cp) ==
    LET keep == {k \in DOMAIN cps : cps[k].position >= cp.position}
    IN  [k \in keep |-> cps[k]]

\* line 224
Prune(cps, cp) ==
    LET keep == {k \in DOMAIN cps : cps[k].position <= cp.position}
    IN  [k \in keep |-> cps[k]]

\* mutant: the visible text is restored from the raw snapshot
Rewind_RawText(c, bt) ==
    LET cp == c.checkpoints[bt.checkpoint_id]
    IN  [c EXCEPT !.accumulated = cp.accumulated_raw,
                  !.accumulated_raw = cp.accumulated_raw,
                  !.checkpoints = Prune(@, cp),
                  !.hints = Append(@, bt.reason),
                  !.mode = IF Truthy(bt.mode) THEN Val(bt.mode) ELSE @,
                  !.temperature = IF bt.temperature # None THEN bt.temperature ELSE @,
                  !.bt_count = @ + 1,
                  !.chars_since = min_tokens_between_signals]

\* mutant: a backtrack counts as a signal, so the distance restarts at 0
Rewind_ZeroChars(c, bt) ==
    LET cp == c.checkpoints[bt.checkpoint_id]
    IN  [c EXCEPT !.accumulated = cp.accumulated_text,
                  !.accumulated_raw = cp.accumulated_raw,
                  !.checkpoints = Prune(@, cp),
                  !.hints = Append(@, bt.reason),
                  !.mode = IF Truthy(bt.mode) THEN Val(bt.mode) ELSE @,
                  !.temperature = IF bt.temperature # None THEN bt.temperature ELSE @,
                  !.bt_count = @ + 1,
                  !.chars_since = 0]

\* mutant: only the reason of the last backtrack is kept
Rewind_LastHintOnly(c, bt) ==
    LET cp == c.checkpoints[bt.checkpoint_id]
    IN  [c EXCEPT !.accumulated = cp.accumulated_text,
                  !.accumulated_raw = cp.accumulated_raw,
                  !.checkpoints = Prune(@, cp),
                  !.hints = <<bt.reason>>,
                  !.mode = IF Truthy(bt.mode) THEN Val(bt.mode) ELSE @,
                  !.temperature = IF bt.temperature # None THEN bt.temperature ELSE @,
                  !.bt_count = @ + 1,
                  !.chars_since = min_tokens_between_signals]

\* mutant: the text is rewound and the records stored after it are kept
Rewind_Unpruned(c, bt) ==
    LET cp == c.checkpoints[bt.checkpoint_id]
    IN  [c EXCEPT !.accumulated = cp.accumulated_text,
                  !.accumulated_raw = cp.accumulated_raw,
                  !.hints = Append(@, bt.reason),
                  !.mode = IF Truthy(bt.mode) THEN Val(bt.mode) ELSE @,
                  !.temperature = IF bt.temperature # None THEN bt.temperature ELSE @,
                  !.bt_count = @ + 1,
                  !.chars_since = min_tokens_between_signals]

\* mutant: an executed backtrack is not counted
Rewind_NotCounted(c, bt) ==
    LET cp == c.checkpoints[bt.checkpoint_id]
    IN  [c EXCEPT !.accumulated = cp.accumulated_text,
                  !.accumulated_raw = cp.accumulated_raw,
                  !.checkpoints = Prune(@, cp),
                  !.hints = Append(@, bt.reason),
                  !.mode = IF Truthy(bt.mode) THEN Val(bt.mode) ELSE @,
                  !.temperature = IF bt.temperature # None THEN bt.temperature ELSE @,
                  !.chars_since = min_tokens_between_signals]

\* lines 221-230
Rewind(c, bt) ==
    LET cp == c.checkpoints[bt.checkpoint_id]
    IN  [c EXCEPT !.accumulated = cp.accumulated_text,
                  !.accumulated_raw = cp.accumulated_raw,
                  !.checkpoints = Prune(@, cp),
                  !.hints = Append(@, bt.reason),
                  !.mode = IF Truthy(bt.mode) THEN Val(bt.mode) ELSE @,
                  !.temperature = IF bt.temperature # None THEN bt.temperature ELSE @,
                  !.bt_count = @ + 1,
                  !.chars_since = min_tokens_between_signals]

\* mutant: there is no budget
BudgetExhausted_Never(c) == FALSE

\* mutant: the budget check is off by one
BudgetExhausted_OffByOne(c) == c.bt_count > max_backtracks

\* line 193
BudgetExhausted(c) == c.bt_count >= max_backtracks

\* line 200
UnknownCheckpoint(bt, c) == bt.checkpoint_id \notin DOMAIN c.checkpoints

\* mutant: the sentinel is not added to the visible text
SentinelAppended_OnlyRaw(c) ==
    [c EXCEPT !.accumulated_raw = @ \o BUDGET_EXHAUSTED]

\* lines 196-197: the sentinel goes into the text after on_text returned
SentinelAppended(c) ==
    [c EXCEPT !.accumulated = @ \o BUDGET_EXHAUSTED,
              !.accumulated_raw = @ \o BUDGET_EXHAUSTED]

\* mutant: a backtrack is counted before its checkpoint id is looked up
HandleBacktrack_CountsUnknown(s, bt) ==
    IF BudgetExhausted(s.ctx)
    THEN Call([s EXCEPT !.pending = Tail(@), !.pc = "await_on_text_exhausted"],
              [op |-> "on_text", text |-> BUDGET_EXHAUSTED])
    ELSE IF UnknownCheckpoint(bt, s.ctx)
    THEN [s EXCEPT !.pending = Tail(@), !.pc = "continue",
                   !.ctx = [@ EXCEPT !.bt_count = @ + 1]]
    ELSE Call([s EXCEPT !.pending = <<Validate(bt)>> \o Tail(@),
                        !.pc = "await_cancel"],
              [op |-> "cancel"])

\* mutant: the context is rewound before inference.cancel() is awaited
HandleBacktrack_RewindsFirst(s, bt) ==
    IF BudgetExhausted(s.ctx)
    THEN Call([s EXCEPT !.pending = Tail(@), !.pc = "await_on_text_exhausted"],
              [op |-> "on_text", text |-> BUDGET_EXHAUSTED])
    ELSE IF UnknownCheckpoint(bt, s.ctx)
    THEN [s EXCEPT !.pending = Tail(@), !.pc = "continue"]
    ELSE Call([s EXCEPT !.pending = <<Validate(bt)>> \o Tail(@),
                        !.ctx = [@ EXCEPT !.accumulated =
                                     s.ctx.checkpoints[bt.checkpoint_id].accumulated_text],
                        !.pc = "await_cancel"],
              [op |-> "cancel"])

\* lines 193-220: _handle_backtrack up to its first await.  s.pending starts
\* with bt.  pc "continue" stands for the early return of a dropped backtrack.
HandleBacktrack(s, bt) ==
    IF BudgetExhausted(s.ctx)
    THEN Call([s EXCEPT !.pending = Tail(@), !.pc = "await_on_text_exhausted"],
              [op |-> "on_text", text |-> BUDGET_EXHAUSTED])
    ELSE IF UnknownCheckpoint(bt, s.ctx)
    THEN [s EXCEPT !.pending = Tail(@), !.pc = "continue"]
    ELSE Call([s EXCEPT !.pending = <<Validate(bt)>> \o Tail(@),
                        !.pc = "await_cancel"],
              [op |-> "cancel"])

\* mutant: on_backtrack is given the raw transcript of the record
ExecuteBacktrack_ReportsRaw(s, bt) ==
    LET c == Rewind(s.ctx, bt)
    IN  Call([s EXCEPT !.ctx = c, !.pc = "await_on_backtrack"],
             [op |-> "on_backtrack", bt |-> bt, text |-> c.accumulated_raw])

\* mutant: the restart is signalled without telling the consumer
ExecuteBacktrack_NoCallback(s, bt) ==
    LoopTop([s EXCEPT !.ctx = Rewind(s.ctx, bt)])

\* lines 221-231: after cancel() returned: rewind, then on_backtrack
ExecuteBacktrack(s, bt) ==
    LET c == Rewind(s.ctx, bt)
    IN  Call([s EXCEPT !.ctx = c, !.pc = "await_on_backtrack"],
             [op |-> "on_backtrack", bt |-> bt, text |-> c.accumulated])

\* mutant: the try block covers the whole of run()
InsideTry_WholeRun(s) == s.pc # "await_on_error"

\* lines 142-151: whether the suspended call is inside the loop's try block
InsideTry(s) == s.phase = "feed" /\ s.pc # "await_on_error"

\* mutant: the loop goes on after on_error
AfterOnError_Continue(s) == LoopTop(s)

\* line 154: return None, and run() returns (lines 97-98)
AfterOnError(s) == Exit(s, "returned")

\* lines 106-108: commit the assistant turn, then on_done
Commit(s) ==
    Call([s EXCEPT !.messages = Append(@, Message("assistant", s.ctx.accumulated)),
                   !.pc = "await_on_done"],
         [op |-> "on_done", text |-> s.ctx.accumulated])

\* Process the pending tokens up to the next suspension point: the loop over
\* parser.feed(delta) (lines 146-147) or over parser.flush() (lines 100-104).
RECURSIVE Advance(_)
Advance(s) ==
    IF s.pending = <<>>
    THEN IF s.phase = "feed" THEN [s EXCEPT !.pc = "await_delta"] ELSE Commit(s)
    ELSE LET token == Head(s.pending)
             rest == [s EXCEPT !.pending = Tail(@)]
         IN  IF token.type = "TextChunk"
             THEN Call([rest EXCEPT
                          !.ctx = IF s.phase = "feed" THEN TextToken(@, token.text)
                                  ELSE [@ EXCEPT !.accumulated = @ \o token.text],
                          !.pc = "await_on_text"],
                       [op |-> "on_text", text |-> token.text])
             ELSE IF token.type = "Checkpoint"
             THEN Advance([rest EXCEPT !.ctx = _handle_checkpoint(token, @)])
             ELSE LET r == HandleBacktrack(s, token)
                  IN  IF r.pc = "continue" THEN Advance(r) ELSE r

\* ids that were admitted in this run and are not stored any more
KeepStale ==
    stale' = (stale \cup DOMAIN ctx.checkpoints) \ DOMAIN ctx'.checkpoints

\* characters of text events (the sentinel is not one) an attempt delivered
RECURSIVE TextChars(_)
TextChars(cs) ==
    IF cs = <<>> \/ cs[Len(cs)].op = "stream" THEN 0
    ELSE LET ev == cs[Len(cs)]
             n == IF ev.op = "on_text" /\ ev.text # BUDGET_EXHAUSTED
                  THEN Len(ev.text) ELSE 0
         IN  n + TextChars(SubSeq(cs, 1, Len(cs) - 1))

\* a checkpoint record was stored in this step (line 183): only then does the
\* raw transcript grow by more than the visible text within one attempt
Admitted ==
    /\ ctx'.bt_count = ctx.bt_count
    /\ Len(ctx'.accumulated_raw) - Len(ctx.accumulated_raw)
           > Len(ctx'.accumulated) - Len(ctx.accumulated)

\* the ids of the records stored in this step: those whose tag line 181
\* added to the raw transcript
AdmittedIds ==
    LET raw == ctx'.accumulated_raw
    IN  {k \in DOMAIN ctx'.checkpoints :
            \E i \in (Len(ctx.accumulated_raw) + 1)..Len(raw) :
                /\ i + Len(S_checkpoint_raw(k)) - 1 <= Len(raw)
                /\ SubSeq(raw, i, i + Len(S_checkpoint_raw(k)) - 1)
                       = S_checkpoint_raw(k)}

\* the id of the record stored in this step (a step stores at most one,
\* min_tokens_between_signals being positive)
AdmittedId == CHOOSE k \in AdmittedIds : TRUE

\* s without its entries equal to k
Without(s, k) == SelectSeq(s, LAMBDA e : e # k)

\* line 183 stores a record, under a new id or in place of the id's old
\* record; line 224 drops records
KeepAdmission ==
    admission' =
        IF ctx'.bt_count # ctx.bt_count
        THEN SelectSeq(admission, LAMBDA e : e \in DOMAIN ctx'.checkpoints)
        ELSE IF AdmittedIds # {}
        THEN Append(Without(admission, AdmittedId), AdmittedId)
        ELSE admission

KeepMarks ==
    /\ admit_marks' =
           IF ctx'.bt_count # ctx.bt_count THEN <<>>
           ELSE IF Admitted THEN Append(admit_marks, TextChars(calls'))
           ELSE admit_marks
    /\ KeepAdmission
    /\ UNCHANGED prev_run

(***************************************************************************)
(* Actions: run() is entered, and is resumed at each suspension point      *)
(***************************************************************************)
\* a parser that is given nothing
ParserUnused ==
    /\ p_input = <<>>
    /\ p_pos = 0
    /\ p_parser = NewParser
    /\ p_out = <<>>
    /\ p_done = FALSE

\* StreamProcessor.__init__ (lines 59-68)
ProcessorIdle ==
    /\ messages = <<>>
    /\ ctx = NewRunCtx
    /\ parser = NewParser
    /\ pending = <<>>
    /\ phase = "feed"
    /\ pc = "idle"
    /\ outcome = "none"
    /\ calls = <<>>
    /\ messages0 = <<>>
    /\ user_message = <<>>
    /\ stale = {}
    /\ last_delta = <<>>
    /\ runs = 0
    /\ deltas_used = 0
    /\ admit_marks = <<>>
    /\ prev_run = NewRunCtx
    /\ admission = <<>>

\* InferenceManager.__init__ (inference.py lines 17-20)
ManagerNew ==
    /\ _active_stream = None
    /\ streams = <<>>
    /\ cancel_pc = "idle"
    /\ cancels = 0
    /\ last_op = "new"
    /\ closed_by_cancel = None
    /\ cancel_raised = FALSE

\* SheldrakeApp before the first submission (app.py lines 67-75, 124-128)
WorkersNone ==
    /\ w_conv = <<>>
    /\ workers = <<>>

\* pali.stream.StreamProcessor.__init__ (pali/stream.py lines 54-63)
LegacyIdle ==
    /\ l_messages = <<>>
    /\ l_pc = "idle"
    /\ l_outcome = "none"
    /\ l_messages0 = <<>>
    /\ l_runs = 0
    /\ l_acc = <<>>
    /\ l_bt = 0

Init == ProcessorIdle /\ ParserUnused /\ ManagerNew /\ WorkersNone /\ LegacyIdle

\* mutant: the checkpoints live on the processor and survive the run
Run_KeepsCheckpoints(user_message_) ==
    /\ pc \in {"idle", "exited"}
    /\ runs < MaxRuns
    /\ runs' = runs + 1
    /\ messages0' = messages
    /\ user_message' = user_message_
    /\ stale' = {}
    /\ last_delta' = <<>>
    /\ admit_marks' = <<>>
    /\ prev_run' = ctx
    /\ admission' = <<>>
    /\ Become(LoopTop([Cur EXCEPT !.messages = Append(@, Message("user", user_message_)),
                                  !.ctx = [NewRunCtx EXCEPT
                                             !.checkpoints = ctx.checkpoints],
                                  !.calls = <<>>, !.outcome = "none"]))
    /\ UNCHANGED deltas_used

\* mutant: the hints live on the processor and survive the run
Run_KeepsHints(user_message_) ==
    /\ pc \in {"idle", "exited"}
    /\ runs < MaxRuns
    /\ runs' = runs + 1
    /\ messages0' = messages
    /\ user_message' = user_message_
    /\ stale' = {}
    /\ last_delta' = <<>>
    /\ admit_marks' = <<>>
    /\ prev_run' = ctx
    /\ admission' = <<>>
    /\ Become(LoopTop([Cur EXCEPT !.messages = Append(@, Message("user", user_message_)),
                                  !.ctx = [NewRunCtx EXCEPT !.hints = ctx.hints],
                                  !.calls = <<>>, !.outcome = "none"]))
    /\ UNCHANGED deltas_used

\* lines 87-96: append the user turn, make the context, enter the loop
Run(user_message_) ==
    /\ pc \in {"idle", "exited"}
    /\ runs < MaxRuns
    /\ runs' = runs + 1
    /\ messages0' = messages
    /\ user_message' = user_message_
    /\ stale' = {}
    /\ last_delta' = <<>>
    /\ admit_marks' = <<>>
    /\ prev_run' = ctx
    /\ admission' = <<>>
    /\ Become(LoopTop([Cur EXCEPT !.messages = Append(@, Message("user", user_message_)),
                                  !.ctx = NewRunCtx, !.calls = <<>>,
                                  !.outcome = "none"]))
    /\ UNCHANGED deltas_used

\* the stream yields a delta: parser.feed(delta), then each token
StreamYields(delta) ==
    /\ pc = "await_delta"
    /\ deltas_used < MaxDeltas
    /\ deltas_used' = deltas_used + 1
    /\ LET f == feed(parser, delta)
       IN  Become(Advance([Cur EXCEPT !.parser = f.parser, !.pending = f.result]))
    /\ last_delta' = delta
    /\ KeepStale
    /\ KeepMarks
    /\ UNCHANGED <<messages0, user_message, runs>>

\* the stream ends: the loop returns the parser (line 156), run() flushes it
StreamEnds ==
    /\ pc = "await_delta"
    /\ LET f == flush(parser)
       IN  Become(Advance([Cur EXCEPT !.parser = f.parser, !.pending = f.result,
                                      !.phase = "flush"]))
    /\ KeepStale
    /\ KeepMarks
    /\ UNCHANGED <<messages0, user_message, last_delta, runs, deltas_used>>

\* the stream raises an Exception (lines 151-153)
StreamRaises(exc) ==
    /\ pc = "await_delta"
    /\ Become(InvokeOnError(Cur, exc))
    /\ KeepStale
    /\ KeepMarks
    /\ UNCHANGED <<messages0, user_message, last_delta, runs, deltas_used>>

\* on_text returns (lines 104, 168)
OnTextReturns ==
    /\ pc = "await_on_text"
    /\ Become(Advance(Cur))
    /\ KeepStale
    /\ KeepMarks
    /\ UNCHANGED <<messages0, user_message, last_delta, runs, deltas_used>>

\* on_text of the sentinel returns (lines 196-198)
OnTextExhaustedReturns ==
    /\ pc = "await_on_text_exhausted"
    /\ Become(Advance([Cur EXCEPT !.ctx = SentinelAppended(@)]))
    /\ KeepStale
    /\ KeepMarks
    /\ UNCHANGED <<messages0, user_message, last_delta, runs, deltas_used>>

\* inference.cancel() returns: rewind, then on_backtrack (lines 221-231)
CancelReturns ==
    /\ pc = "await_cancel"
    /\ Become(ExecuteBacktrack(Cur, Head(pending)))
    /\ KeepStale
    /\ KeepMarks
    /\ UNCHANGED <<messages0, user_message, last_delta, runs, deltas_used>>

\* on_backtrack returns: _BacktrackSignal, and the loop starts the next attempt
OnBacktrackReturns ==
    /\ pc = "await_on_backtrack"
    /\ Become(LoopTop(Cur))
    /\ KeepStale
    /\ KeepMarks
    /\ UNCHANGED <<messages0, user_message, last_delta, runs, deltas_used>>

\* on_error returns: the loop returns None and run() returns (lines 154, 97-98)
OnErrorReturns ==
    /\ pc = "await_on_error"
    /\ Become(AfterOnError(Cur))
    /\ KeepStale
    /\ KeepMarks
    /\ UNCHANGED <<messages0, user_message, last_delta, runs, deltas_used>>

\* on_done returns: run() returns
OnDoneReturns ==
    /\ pc = "await_on_done"
    /\ Become(Exit(Cur, "returned"))
    /\ KeepStale
    /\ KeepMarks
    /\ UNCHANGED <<messages0, user_message, last_delta, runs, deltas_used>>

\* a callback, or inference.cancel(), raises an Exception: inside the loop's
\* try it is reported through on_error, elsewhere it leaves run()
AwaitedRaises(exc) ==
    /\ pc \in AwaitPoints \ {"await_delta"}
    /\ IF InsideTry(Cur)
       THEN Become(InvokeOnError(Cur, exc))
       ELSE Become(Exit(Cur, "raised"))
    /\ KeepStale
    /\ KeepMarks
    /\ UNCHANGED <<messages0, user_message, last_delta, runs, deltas_used>>

\* the task running run() is cancelled: CancelledError at the suspension point
TaskCancelled ==
    /\ pc \in AwaitPoints
    /\ Become(Exit(Cur, "cancelled"))
    /\ KeepStale
    /\ KeepMarks
    /\ UNCHANGED <<messages0, user_message, last_delta, runs, deltas_used>>

Next ==
    \/ \E u \in UserMessages : Run(u)
    \/ \E d \in Deltas : StreamYields(d)
    \/ StreamEnds
    \/ \E exc \in InferenceErrors : StreamRaises(exc)
    \/ OnTextReturns
    \/ OnTextExhaustedReturns
    \/ CancelReturns
    \/ OnBacktrackReturns
    \/ OnErrorReturns
    \/ OnDoneReturns
    \/ \E exc \in CallbackErrors : AwaitedRaises(exc)
    \/ TaskCancelled

Spec == Init /\ [][Next]_vars

(***************************************************************************)
(* run() with callbacks that return and a task that is not cancelled.  The *)
(* stream yields, ends or raises (it yields MaxDeltas deltas at most);     *)
(* inference.cancel() returns or raises.  The event loop resumes run()     *)
(* when the call it awaits has completed.                                  *)
(***************************************************************************)
\* inference.cancel() raises an Exception inside the loop's try
CancelRaises(exc) ==
    /\ pc = "await_cancel"
    /\ AwaitedRaises(exc)

\* the stream that is awaited completes its __anext__
StreamSteps ==
    \/ \E d \in Deltas : StreamYields(d)
    \/ StreamEnds
    \/ \E exc \in InferenceErrors : StreamRaises(exc)

\* inference.cancel() completes
CancelSteps ==
    \/ CancelReturns
    \/ \E exc \in InferenceErrors : CancelRaises(exc)

\* the callback that is awaited returns
CallbackReturns ==
    \/ OnTextReturns
    \/ OnTextExhaustedReturns
    \/ OnBacktrackReturns
    \/ OnErrorReturns
    \/ OnDoneReturns

TerminationNext ==
    \/ \E u \in UserMessages : Run(u)
    \/ \E d \in Deltas : StreamYields(d)
    \/ StreamEnds
    \/ \E exc \in InferenceErrors : StreamRaises(exc)
    \/ CancelReturns
    \/ \E exc \in InferenceErrors : CancelRaises(exc)
    \/ OnTextReturns
    \/ OnTextExhaustedReturns
    \/ OnBacktrackReturns
    \/ OnErrorReturns
    \/ OnDoneReturns

TerminationSpec ==
    /\ Init
    /\ [][TerminationNext]_vars
    /\ WF_vars(StreamSteps)
    /\ WF_vars(CancelSteps)
    /\ WF_vars(CallbackReturns)

(***************************************************************************)
(* The parser on its own: one string is fed to a fresh SignalParser in     *)
(* chunks, then flush() is called.                                         *)
(***************************************************************************)
MaxChunk == 24

LongBodyLen == 492

RECURSIVE Concat(_)
Concat(ss) == IF ss = <<>> THEN <<>> ELSE Head(ss) \o Concat(Tail(ss))

Str_x(n) == [i \in 1..n |-> "x"]

I_text == <<"x", "<", "y", "<", "<", "z", ">", ">", "w">>

I_checkpoint == <<"a">> \o S_open \o S_checkpoint \o <<"k">> \o S_close \o <<"b">>

I_backtrack ==
    S_open \o S_backtrack \o <<"k", "|", "r", "|">> \o S_temp \o <<"0", ".", "5">>
    \o <<"|", "u", "|">> \o S_mode \o <<"m">> \o S_close \o <<"c", "<">>

I_malformed ==
    S_open \o S_checkpoint \o S_close \o S_open \o S_backtrack \o <<"k">> \o S_close

I_two ==
    S_open \o S_checkpoint \o <<"a">> \o S_close
    \o S_open \o S_backtrack \o <<"a", "|", "r">> \o S_close

I_cut_prefix == <<"t">> \o S_open \o <<"c", "h", "e", "c", "k">>

I_cut_body == S_open \o S_backtrack \o <<"a", "|", "r", ">">>

I_triple == <<"<">> \o S_open \o S_checkpoint \o <<"a">> \o S_close \o <<">">>

\* a tag of more than MAX_SIGNAL_LENGTH characters, then a short one
I_oversize ==
    S_open \o S_checkpoint \o Str_x(LongBodyLen) \o S_close
    \o S_open \o S_checkpoint \o <<"b">> \o S_close

\* closed tags with a valid prefix that do not parse: a checkpoint with an
\* empty id; a backtrack with an empty id, with no "|", with an empty
\* reason, with nothing at all, with "|" alone
BadTags ==
    <<S_open \o S_checkpoint \o S_close,
      S_open \o S_backtrack \o <<"|", "r">> \o S_close,
      S_open \o S_backtrack \o <<"k">> \o S_close,
      S_open \o S_backtrack \o <<"k", "|">> \o S_close,
      S_open \o S_backtrack \o S_close,
      S_open \o S_backtrack \o <<"|">> \o S_close>>

\* the malformed tags, then a well-formed one and text
I_bad_then_good ==
    Concat(BadTags) \o S_open \o S_checkpoint \o <<"a">> \o S_close \o <<"t">>

\* a checkpoint tag with n characters between "<<" and ">>"
TagOfContent(n) ==
    S_open \o S_checkpoint \o Str_x(n - Len(S_checkpoint)) \o S_close

\* content of MAX_SIGNAL_LENGTH characters, and of one more
I_limit == TagOfContent(MAX_SIGNAL_LENGTH)

I_limit_plus == TagOfContent(MAX_SIGNAL_LENGTH + 1)

\* the closing ">>" is the last that fits into MAX_SIGNAL_LENGTH buffered
\* characters, and content of one more
I_fits == TagOfContent(MAX_SIGNAL_LENGTH - 2)

I_fits_plus == TagOfContent(MAX_SIGNAL_LENGTH - 1)

\* test_protocol.py lines 142-161: text that looks like the start of a tag
I_shift == <<"x", " ", "<", "<", " ", "1">>

I_spaced == S_open \o <<" ", "s", "o", "m", "e", " ">> \o S_close

I_single == <<"a", " ", "<", " ", "b", " ", "c", " ", ">", " ", "d">>

\* tag names without their colon
I_near ==
    S_open \o <<"c", "h", "e", "c", "k", "p", "o", "i", "n", "t", " ", "a">>
    \o S_close \o S_open \o <<"b", "a", "c", "k", "t", "r", "a", "c", "k">> \o S_close

\* an input given by its parts: plain text, and well-formed tags
Plain(s) == [tag |-> FALSE, s |-> s]

Tag(s) == [tag |-> TRUE, s |-> s]

Join(parts) == Concat([i \in 1..Len(parts) |-> parts[i].s])

Tag_cp(id) == Tag(S_open \o S_checkpoint \o id \o S_close)

\* test_protocol.py lines 199-204: "<a <<checkpoint:x>>"
T_nested == <<Plain(<<"<", "a", " ">>), Tag_cp(<<"x">>)>>

\* test_protocol.py lines 225-234: "<<checkpoint:a>>text<<checkpoint:b>>more"
T_multi ==
    <<Tag_cp(<<"a">>), Plain(<<"t", "e", "x", "t">>), Tag_cp(<<"b">>),
      Plain(<<"m", "o", "r", "e">>)>>

\* text that contains '<' and ends with '<', then a tag
T_lt_text == <<Plain(<<"a", "<", "b", "<">>), Tag_cp(<<"x">>)>>

\* two tags with a '<' between them
T_lt_between ==
    <<Tag_cp(<<"a">>), Plain(<<"<">>),
      Tag(S_open \o S_backtrack \o <<"a", "|", "r">> \o S_close)>>

TaggedInputs == {T_nested, T_multi, T_lt_text, T_lt_between}

ParserInputs ==
    {I_text, I_checkpoint, I_backtrack, I_malformed, I_two, I_cut_prefix,
     I_cut_body, I_triple, I_oversize, I_shift, I_spaced, I_single, I_near,
     I_limit, I_limit_plus, I_fits, I_fits_plus, I_bad_then_good}
        \cup {Join(t) : t \in TaggedInputs}

\* an event with its literal: the text of a TextChunk, the "<<...>>" tag a
\* signal was parsed from
Entry(ev, lit) == [event |-> ev, literal |-> lit]

\* the events with their literals; lits are the literals of the signals
Zip(evs, lits) ==
    [i \in 1..Len(evs) |->
        IF evs[i].type = "TextChunk" THEN Entry(evs[i], evs[i].text)
        ELSE Entry(evs[i],
                   lits[Cardinality({j \in 1..i : evs[j].type # "TextChunk"})])]

Events(out) == [i \in 1..Len(out) |-> out[i].event]

MergeEntry(front, e) ==
    IF /\ front # <<>>
       /\ front[Len(front)].event.type = "TextChunk"
       /\ e.event.type = "TextChunk"
    THEN [front EXCEPT ![Len(front)] =
              Entry(TextChunk(@.event.text \o e.event.text), @.literal \o e.literal)]
    ELSE Append(front, e)

\* the entries es added to front, adjacent TextChunk events merged into one
RECURSIVE MergeEntries(_, _)
MergeEntries(front, es) ==
    IF es = <<>> THEN front
    ELSE MergeEntries(MergeEntry(front, Head(es)), Tail(es))

MergeText(evs) == Events(MergeEntries(<<>>, Zip(evs, [i \in 1..Len(evs) |-> <<>>])))

\* The parser record with a field lits that holds, for each signal in
\* result, its literal.  nxt is the record after char was handled in ps: a
\* signal it has appended was parsed from "<<", the buffer and char.
Track(ps, nxt, char) ==
    IF /\ Len(nxt.result) > Len(ps.result)
       /\ nxt.result[Len(nxt.result)].type # "TextChunk"
    THEN [nxt EXCEPT !.lits = Append(@, S_open \o Append(ps.buffer, char))]
    ELSE nxt

RECURSIVE TrackChars(_, _)
TrackRest(mid, rest) == CASE mid.state \in _State -> TrackChars(mid, rest)

TrackChars(ps, chunk) ==
    IF chunk = <<>> THEN ps
    ELSE IF Len(chunk) = 1 THEN Track(ps, FeedChar(ps, chunk[1]), chunk[1])
    ELSE TrackRest(TrackChars(ps, SubSeq(chunk, 1, Len(chunk) \div 2)),
                   SubSeq(chunk, Len(chunk) \div 2 + 1, Len(chunk)))

\* the literals of the signals of one feed() call
FeedLiterals(p, chunk) ==
    TrackChars([state |-> p.state, buffer |-> p.buffer,
                text_buffer |-> p.text_buffer, result |-> <<>>,
                lits |-> <<>>], chunk).lits

Texts(evs) == [i \in 1..Len(evs) |-> evs[i].text]

ParserInit ==
    /\ ProcessorIdle
    /\ ManagerNew
    /\ WorkersNone
    /\ LegacyIdle
    /\ p_input \in ParserInputs
    /\ p_pos = 0
    /\ p_parser = NewParser
    /\ p_out = <<>>
    /\ p_done = FALSE

\* f is what the call returned, lits the literals of its signals
Returned(f, lits) ==
    /\ p_parser' = f.parser
    /\ p_out' = MergeEntries(p_out, Zip(f.result, lits))

\* parser.feed(chunk) with the next n characters of the input
ParserFeed(n) ==
    /\ ~p_done
    /\ p_pos + n <= Len(p_input)
    /\ Returned(feed(p_parser, SubSeq(p_input, p_pos + 1, p_pos + n)),
                FeedLiterals(p_parser, SubSeq(p_input, p_pos + 1, p_pos + n)))
    /\ p_pos' = p_pos + n
    /\ UNCHANGED <<p_input, p_done>>
    /\ UNCHANGED ovars
    /\ UNCHANGED mvars
    /\ UNCHANGED <<wvars, lvars>>

\* parser.flush() at the end of the input
ParserFlush ==
    /\ ~p_done
    /\ p_pos = Len(p_input)
    /\ Returned(flush(p_parser), <<>>)
    /\ p_done' = TRUE
    /\ UNCHANGED <<p_input, p_pos>>
    /\ UNCHANGED ovars
    /\ UNCHANGED mvars
    /\ UNCHANGED <<wvars, lvars>>

ParserNext ==
    \/ \E n \in 1..MaxChunk : ParserFeed(n)
    \/ p_pos = 0 /\ ParserFeed(Len(p_input))
    \/ ParserFlush

ParserSpec == ParserInit /\ [][ParserNext]_vars

(***************************************************************************)
(* inference.py: the InferenceManager on its own.  stream() is an async    *)
(* generator: the call creates it, and its body runs when the consumer     *)
(* asks for the next delta.  A stream is [gen, open, mode, temperature,    *)
(* kwargs]: gen is where the generator is, open whether the SDK stream is  *)
(* inside its "async with", kwargs the request.                            *)
(***************************************************************************)
MaxStreams == 2

MaxCancels == 2

M_unknown == <<"u">>

\* the mode and the temperature override of a stream() call
Requests == {<<default_mode, None>>, <<default_mode, Some(10)>>, <<M_unknown, None>>}

\* lines 30-37: the temperature of the request
EffectiveTemp(mode, temperature) ==
    IF temperature # None THEN Val(temperature) ELSE modes[mode]

\* manager.stream(messages, system, mode, temperature): the generator object
MStream(mode, temperature) ==
    /\ cancel_pc = "idle"
    /\ Len(streams) < MaxStreams
    /\ streams' = Append(streams, [gen |-> "created", open |-> FALSE,
                                   mode |-> mode, temperature |-> temperature,
                                   kwargs |-> None])
    /\ last_op' = "stream"
    /\ UNCHANGED <<_active_stream, cancel_pc, cancels, closed_by_cancel, cancel_raised>>
    /\ UNCHANGED <<ovars, pvars, wvars, lvars>>

\* lines 44-45: what the text_stream of stream i does next.  A stream that
\* was closed yields nothing more.
Iterate(st, what) ==
    IF what = "yield"
    THEN [st EXCEPT !.gen = "suspended"]
    ELSE [st EXCEPT !.gen = IF what = "end" THEN "finished" ELSE "raised",
                    !.open = FALSE]

\* lines 30-45: the body of the generator from where it is to its next
\* yield or to its end.  From the start: modes[mode] (KeyError for an
\* unknown mode), the request, "async with manager as stream",
\* self._active_stream = stream.  Nothing is assigned when it is left.
Resume(i, what) ==
    LET st == streams[i]
        opened == [st EXCEPT !.open = TRUE,
                             !.kwargs = Some(EffectiveTemp(st.mode, st.temperature))]
    IN  IF st.gen = "created" /\ st.mode \notin DOMAIN modes
        THEN /\ streams' = [streams EXCEPT ![i].gen = "raised"]
             /\ UNCHANGED _active_stream
        ELSE IF st.gen = "created"
        THEN /\ streams' = [streams EXCEPT ![i] = Iterate(opened, what)]
             /\ _active_stream' = Some(i)
        ELSE /\ streams' = [streams EXCEPT ![i] = Iterate(st, what)]
             /\ UNCHANGED _active_stream

\* the consumer asks generator i for its next delta
MNext(i, what) ==
    /\ cancel_pc = "idle"
    /\ i \in 1..Len(streams)
    /\ streams[i].gen \in {"created", "suspended"}
    /\ (what = "yield" /\ streams[i].gen = "suspended") => streams[i].open
    /\ Resume(i, what)
    /\ last_op' = "next"
    /\ UNCHANGED <<cancel_pc, cancels, closed_by_cancel, cancel_raised>>
    /\ UNCHANGED <<ovars, pvars, wvars, lvars>>

\* the consumer leaves its "async for" and generator i is closed: a
\* generator suspended at its yield leaves the "async with"
MAclose(i) ==
    /\ cancel_pc = "idle"
    /\ i \in 1..Len(streams)
    /\ streams[i].gen \in {"created", "suspended"}
    /\ streams' = [streams EXCEPT ![i].gen = "closed", ![i].open = FALSE]
    /\ last_op' = "aclose"
    /\ UNCHANGED <<_active_stream, cancel_pc, cancels, closed_by_cancel, cancel_raised>>
    /\ UNCHANGED <<ovars, pvars, wvars, lvars>>

\* lines 47-50: cancel() up to "await self._active_stream.close()", or all
\* of it when there is no _active_stream
MCancel ==
    /\ cancel_pc = "idle"
    /\ cancels < MaxCancels
    /\ cancels' = cancels + 1
    /\ closed_by_cancel' = _active_stream
    /\ cancel_raised' = FALSE
    /\ cancel_pc' = IF _active_stream # None THEN "await_close" ELSE "idle"
    /\ last_op' = "cancel"
    /\ UNCHANGED <<_active_stream, streams>>
    /\ UNCHANGED <<ovars, pvars, wvars, lvars>>

\* lines 50-51: close() returns: self._active_stream = None
MCloseReturns ==
    /\ cancel_pc = "await_close"
    /\ streams' = [streams EXCEPT ![Val(_active_stream)].open = FALSE]
    /\ _active_stream' = None
    /\ cancel_pc' = "idle"
    /\ UNCHANGED <<cancels, last_op, closed_by_cancel, cancel_raised>>
    /\ UNCHANGED <<ovars, pvars, wvars, lvars>>

\* line 50: close() raises and cancel() is left by the exception
MCloseRaises ==
    /\ cancel_pc = "await_close"
    /\ cancel_raised' = TRUE
    /\ cancel_pc' = "idle"
    /\ UNCHANGED <<_active_stream, streams, cancels, last_op, closed_by_cancel>>
    /\ UNCHANGED <<ovars, pvars, wvars, lvars>>

ManagerNext ==
    \/ \E req \in Requests : MStream(req[1], req[2])
    \/ \E i \in 1..MaxStreams, what \in {"yield", "end", "raise"} : MNext(i, what)
    \/ \E i \in 1..MaxStreams : MAclose(i)
    \/ MCancel
    \/ MCloseReturns
    \/ MCloseRaises

ManagerSpec == Init /\ [][ManagerNext]_vars

(***************************************************************************)
(* app.py: the inference workers of the app on its one StreamProcessor.    *)
(* _run_inference is a @work(exclusive=True) worker: starting one cancels  *)
(* the workers still alive, and does not wait for them.  asyncio runs what *)
(* is ready in the order it became ready, so a cancelled worker is given   *)
(* its CancelledError before the new worker takes its first step; it then  *)
(* runs up to its next suspension.  Leaving the stream at the delta it     *)
(* waits for passes the "async with" of inference.stream (inference.py     *)
(* line 42), whose exit is awaited and may suspend; everywhere else the    *)
(* exception reaches the finally of run() at once.                         *)
(***************************************************************************)
MaxSubmits == 3

MaxWorkerTexts == 1

Turn(role, owner) == [role |-> role, owner |-> owner]

NewWorker == [pc |-> "created", outcome |-> "none", texts |-> 0, late |-> FALSE]

WorkerLeft(w, how) == [w EXCEPT !.pc = "exited", !.outcome = how]

\* CancelledError is thrown into a worker, which runs to its next suspension
\* or to its end.  A task that has not started never runs run(); one that
\* waits for a delta leaves through the "async with" exit; one that waits
\* there already, or waits for on_text (stream.write), reaches the finally
\* of run() (stream.py lines 109-113).
Thrown(w, conv, suspends) ==
    IF w.pc \in {"created", "exited"}
    THEN [w |-> IF w.pc = "created" THEN WorkerLeft(w, "cancelled") ELSE w,
          conv |-> conv]
    ELSE IF w.pc = "await_delta" /\ suspends
    THEN [w |-> [w EXCEPT !.pc = "await_aexit", !.late = TRUE], conv |-> conv]
    ELSE [w |-> WorkerLeft(w, "cancelled"), conv |-> Finally(conv)]

\* workers.cancel_group: every worker from the i-th on is cancelled, in order
RECURSIVE CancelGroup(_, _, _, _)
CancelGroup(ws, conv, i, suspends) ==
    IF i > Len(ws) THEN [ws |-> ws, conv |-> conv]
    ELSE LET r == Thrown(ws[i], conv, suspends)
         IN  CancelGroup([ws EXCEPT ![i] = r.w], r.conv, i + 1, suspends)

\* on_chat_input_submitted (app.py lines 135-154): a worker is started, and
\* being exclusive it cancels the others first
Submit(suspends) ==
    /\ Len(workers) < MaxSubmits
    /\ LET r == CancelGroup(workers, w_conv, 1, suspends)
       IN  /\ workers' = Append(r.ws, NewWorker)
           /\ w_conv' = r.conv
    /\ UNCHANGED <<ovars, pvars, mvars, lvars>>

\* action_cancel_inference (app.py lines 215-217)
Escape(suspends) ==
    /\ \E i \in 1..Len(workers) : workers[i].pc # "exited"
    /\ LET r == CancelGroup(workers, w_conv, 1, suspends)
       IN  /\ workers' = r.ws
           /\ w_conv' = r.conv
    /\ UNCHANGED <<ovars, pvars, mvars, lvars>>

\* the worker's first step: run() appends its user turn and waits for the
\* first delta (stream.py lines 87-145)
WorkerStarts(i) ==
    /\ i \in 1..Len(workers)
    /\ workers[i].pc = "created"
    /\ workers' = [workers EXCEPT ![i].pc = "await_delta"]
    /\ w_conv' = Append(w_conv, Turn("user", i))
    /\ UNCHANGED <<ovars, pvars, mvars, lvars>>

\* a delta with text: on_text awaits stream.write (app.py lines 165-166)
WorkerText(i) ==
    /\ i \in 1..Len(workers)
    /\ workers[i].pc = "await_delta"
    /\ workers[i].texts < MaxWorkerTexts
    /\ workers' = [workers EXCEPT ![i].pc = "await_on_text", ![i].texts = @ + 1]
    /\ UNCHANGED w_conv
    /\ UNCHANGED <<ovars, pvars, mvars, lvars>>

WorkerTextWritten(i) ==
    /\ i \in 1..Len(workers)
    /\ workers[i].pc = "await_on_text"
    /\ workers' = [workers EXCEPT ![i].pc = "await_delta"]
    /\ UNCHANGED w_conv
    /\ UNCHANGED <<ovars, pvars, mvars, lvars>>

\* the stream ends: the assistant turn is committed, on_done (not async in
\* the app) is called and run() returns (stream.py lines 100-113)
WorkerDone(i) ==
    /\ i \in 1..Len(workers)
    /\ workers[i].pc = "await_delta"
    /\ workers' = [workers EXCEPT ![i] = WorkerLeft(@, "returned")]
    /\ w_conv' = Finally(Append(w_conv, Turn("assistant", i)))
    /\ UNCHANGED <<ovars, pvars, mvars, lvars>>

\* the exit of the "async with" returns and the CancelledError goes on to
\* the finally of run()
WorkerUnwinds(i) ==
    /\ i \in 1..Len(workers)
    /\ workers[i].pc = "await_aexit"
    /\ workers' = [workers EXCEPT ![i] = WorkerLeft(@, "cancelled")]
    /\ w_conv' = Finally(w_conv)
    /\ UNCHANGED <<ovars, pvars, mvars, lvars>>

WorkerNext ==
    \/ \E suspends \in BOOLEAN : Submit(suspends)
    \/ \E suspends \in BOOLEAN : Escape(suspends)
    \/ \E i \in 1..MaxSubmits :
           \/ WorkerStarts(i)
           \/ WorkerText(i)
           \/ WorkerTextWritten(i)
           \/ WorkerDone(i)
           \/ WorkerUnwinds(i)

WorkerSpec == Init /\ [][WorkerNext]_vars

(***************************************************************************)
(* pali/stream.py: the legacy StreamProcessor.run on its own.  As tokens   *)
(* its stream gives text, or a backtrack to a checkpoint stored before any *)
(* text.  run() has no finally block: the user turn is removed only after  *)
(* on_error has returned (line 108).                                       *)
(***************************************************************************)
MaxLegacyRuns == 2

MaxLegacyText == 2

LegacyAwaitPoints ==
    {"await_delta", "await_on_text", "await_on_text_exhausted", "await_cancel",
     "await_on_backtrack", "await_on_error", "await_on_done"}

\* whether the suspended call is inside the try block of lines 97-101
LegacyInsideTry ==
    l_pc \in {"await_delta", "await_on_text", "await_on_text_exhausted",
              "await_cancel", "await_on_backtrack"}

\* run() is left
LegacyLeft(how) ==
    /\ l_pc' = "exited"
    /\ l_outcome' = how

\* lines 82-96: append the user turn, make the context, call the stream
LegacyRun(user_message_) ==
    /\ l_pc \in {"idle", "exited"}
    /\ l_runs < MaxLegacyRuns
    /\ l_runs' = l_runs + 1
    /\ l_messages0' = l_messages
    /\ l_messages' = Append(l_messages, Message("user", user_message_))
    /\ l_acc' = <<>>
    /\ l_bt' = 0
    /\ l_pc' = "await_delta"
    /\ l_outcome' = "none"
    /\ UNCHANGED <<ovars, pvars, mvars, wvars>>

\* a text token (lines 129-131)
LegacyText ==
    /\ l_pc = "await_delta"
    /\ Len(l_acc) < MaxLegacyText
    /\ l_acc' = l_acc \o <<"x">>
    /\ l_pc' = "await_on_text"
    /\ UNCHANGED <<l_messages, l_outcome, l_messages0, l_runs, l_bt>>
    /\ UNCHANGED <<ovars, pvars, mvars, wvars>>

\* a backtrack token (lines 152-178): the sentinel when the budget is used
\* up, else inference.cancel() is awaited
LegacyBacktrack ==
    /\ l_pc = "await_delta"
    /\ Len(l_acc) <= MaxLegacyText
    /\ l_pc' = IF l_bt >= max_backtracks THEN "await_on_text_exhausted"
               ELSE "await_cancel"
    /\ UNCHANGED <<l_messages, l_outcome, l_messages0, l_runs, l_acc, l_bt>>
    /\ UNCHANGED <<ovars, pvars, mvars, wvars>>

\* on_text returns (line 131)
LegacyOnTextReturns ==
    /\ l_pc = "await_on_text"
    /\ l_pc' = "await_delta"
    /\ UNCHANGED <<l_messages, l_outcome, l_messages0, l_runs, l_acc, l_bt>>
    /\ UNCHANGED <<ovars, pvars, mvars, wvars>>

\* on_text of the sentinel returns (lines 158-161)
LegacyOnTextExhaustedReturns ==
    /\ l_pc = "await_on_text_exhausted"
    /\ l_acc' = l_acc \o BUDGET_EXHAUSTED
    /\ l_pc' = "await_delta"
    /\ UNCHANGED <<l_messages, l_outcome, l_messages0, l_runs, l_bt>>
    /\ UNCHANGED <<ovars, pvars, mvars, wvars>>

\* inference.cancel() returns: rewind, then on_backtrack (lines 178-187)
LegacyCancelReturns ==
    /\ l_pc = "await_cancel"
    /\ l_acc' = <<>>
    /\ l_bt' = l_bt + 1
    /\ l_pc' = "await_on_backtrack"
    /\ UNCHANGED <<l_messages, l_outcome, l_messages0, l_runs>>
    /\ UNCHANGED <<ovars, pvars, mvars, wvars>>

\* on_backtrack returns: _BacktrackSignal, continue (lines 188, 103-104)
LegacyOnBacktrackReturns ==
    /\ l_pc = "await_on_backtrack"
    /\ l_pc' = "await_delta"
    /\ UNCHANGED <<l_messages, l_outcome, l_messages0, l_runs, l_acc, l_bt>>
    /\ UNCHANGED <<ovars, pvars, mvars, wvars>>

\* the stream ends: flush, commit the assistant turn, on_done (lines 110-120)
LegacyStreamEnds ==
    /\ l_pc = "await_delta"
    /\ l_messages' = Append(l_messages, Message("assistant", l_acc))
    /\ l_pc' = "await_on_done"
    /\ UNCHANGED <<l_outcome, l_messages0, l_runs, l_acc, l_bt>>
    /\ UNCHANGED <<ovars, pvars, mvars, wvars>>

\* an Exception inside the try: on_error is awaited (lines 105-107)
LegacyRaisesInside ==
    /\ LegacyInsideTry
    /\ l_pc' = "await_on_error"
    /\ UNCHANGED <<l_messages, l_outcome, l_messages0, l_runs, l_acc, l_bt>>
    /\ UNCHANGED <<ovars, pvars, mvars, wvars>>

\* on_error returns: messages.pop(), return (lines 108-109)
LegacyOnErrorReturns ==
    /\ l_pc = "await_on_error"
    /\ l_messages' = SubSeq(l_messages, 1, Len(l_messages) - 1)
    /\ LegacyLeft("returned")
    /\ UNCHANGED <<l_messages0, l_runs, l_acc, l_bt>>
    /\ UNCHANGED <<ovars, pvars, mvars, wvars>>

\* on_done returns: run() returns
LegacyOnDoneReturns ==
    /\ l_pc = "await_on_done"
    /\ LegacyLeft("returned")
    /\ UNCHANGED <<l_messages, l_messages0, l_runs, l_acc, l_bt>>
    /\ UNCHANGED <<ovars, pvars, mvars, wvars>>

\* on_error or on_done raises: the exception leaves run()
LegacyRaisesOutside ==
    /\ l_pc \in {"await_on_error", "await_on_done"}
    /\ LegacyLeft("raised")
    /\ UNCHANGED <<l_messages, l_messages0, l_runs, l_acc, l_bt>>
    /\ UNCHANGED <<ovars, pvars, mvars, wvars>>

\* the task is cancelled: CancelledError is not an Exception, line 105 does
\* not catch it, and nothing else stands between it and the caller
LegacyTaskCancelled ==
    /\ l_pc \in LegacyAwaitPoints
    /\ LegacyLeft("cancelled")
    /\ UNCHANGED <<l_messages, l_messages0, l_runs, l_acc, l_bt>>
    /\ UNCHANGED <<ovars, pvars, mvars, wvars>>

LegacyNext ==
    \/ \E u \in UserMessages : LegacyRun(u)
    \/ LegacyText
    \/ LegacyBacktrack
    \/ LegacyOnTextReturns
    \/ LegacyOnTextExhaustedReturns
    \/ LegacyCancelReturns
    \/ LegacyOnBacktrackReturns
    \/ LegacyStreamEnds
    \/ LegacyRaisesInside
    \/ LegacyOnErrorReturns
    \/ LegacyOnDoneReturns
    \/ LegacyRaisesOutside
    \/ LegacyTaskCancelled

LegacySpec == Init /\ [][LegacyNext]_vars

(***************************************************************************)
(* Properties                                                              *)
(***************************************************************************)
Count(op) == Cardinality({i \in 1..Len(calls) : calls[i].op = op})

Invoked(op) == \E i \in 1..Len(calls) : calls[i].op = op

LastCall == calls[Len(calls)]

UserTurn == Message("user", user_message)

\* C1: conversation integrity.  When run() has been left, the conversation is
\* the one on entry followed by the user turn and an assistant turn holding
\* the final accumulated text if on_done was invoked, and the one on entry
\* otherwise (inference error, exception, cancellation).
C1_ConversationIntegrity ==
    pc = "exited" =>
        IF Invoked("on_done")
        THEN messages = messages0 \o <<UserTurn, Message("assistant", ctx.accumulated)>>
        ELSE messages = messages0

\* a second run fails after a first run that succeeded
C1_Witness ==
    /\ pc = "exited"
    /\ runs = 2
    /\ Len(messages0) = 2
    /\ messages0[2].role = "assistant"
    /\ ~Invoked("on_done")
    /\ Invoked("on_text")
    /\ messages = messages0

\* C2 as stated: cancelled at any suspension point, the conversation is back
\* at its value before the run.
C2_CancelAlwaysRestores ==
    (pc = "exited" /\ outcome = "cancelled") => messages = messages0

\* C2 amended: a cancellation at a suspension point before the commit (the
\* next delta, on_text, on_backtrack, on_error, inference.cancel()) leaves
\* the conversation as it was before the run; a cancellation while on_done is
\* awaited leaves the committed user and assistant turns in place.
C2_CancelBeforeCommitRestores ==
    [][(pc \in AwaitPoints /\ pc' = "exited" /\ outcome' = "cancelled") =>
          IF pc = "await_on_done"
          THEN /\ messages' = messages
               /\ messages = messages0 \o <<UserTurn,
                                            Message("assistant", ctx.accumulated)>>
          ELSE messages' = messages0]_vars

\* cancelled while on_backtrack is awaited, in a run that follows another
C2_Witness ==
    /\ pc = "exited"
    /\ outcome = "cancelled"
    /\ LastCall.op = "on_backtrack"
    /\ messages0 # <<>>
    /\ messages = messages0

\* C3: within one run on_done and on_error are each invoked at most once and
\* never both.
C3_DoneErrorExclusive ==
    /\ Count("on_done") <= 1
    /\ Count("on_error") <= 1
    /\ ~(Invoked("on_done") /\ Invoked("on_error"))

\* an inference failure on a retry, after text and a backtrack
C3_Witness ==
    /\ pc = "exited"
    /\ Count("on_error") = 1
    /\ Invoked("on_backtrack")
    /\ Invoked("on_text")

\* C4: on_done is invoked only once the stream has ended and every token of
\* the final flush has been delivered, and on_done or on_error is the last
\* call of the run: no on_text, on_backtrack, on_done, on_error, cancel or
\* inference.stream follows it.
C4_DoneIsLast ==
    /\ \A i \in 1..Len(calls) :
           calls[i].op \in {"on_done", "on_error"} => i = Len(calls)
    /\ Invoked("on_done") =>
           /\ phase = "flush"
           /\ pending = <<>>
           /\ parser = NewParser
           /\ LastCall.text = ctx.accumulated

\* on_done after a flush that delivered buffered text
C4_Witness ==
    /\ pc = "exited"
    /\ Len(calls) >= 3
    /\ LastCall.op = "on_done"
    /\ calls[Len(calls) - 1] = [op |-> "on_text", text |-> <<"z", "<">>]

\* C5: the first call of a run is inference.stream; every later
\* inference.stream call comes directly after an on_backtrack, and an
\* on_backtrack is followed by nothing but that call (or by on_error when
\* the callback raised): so one on_backtrack separates the on_text calls of
\* two attempts.
C5_BacktrackBetweenAttempts ==
    \A i \in 1..Len(calls) :
        /\ (i = 1) => calls[i].op = "stream"
        /\ (i > 1 /\ calls[i].op = "stream") => calls[i - 1].op = "on_backtrack"
        /\ (i < Len(calls) /\ calls[i].op = "on_backtrack") =>
               calls[i + 1].op \in {"stream", "on_error"}
        /\ (i > 1 /\ calls[i].op = "on_backtrack") =>
               calls[i - 1].op = "cancel"

\* text, a backtrack, and text again in the next attempt
C5_Witness ==
    \E i, j, k \in 1..Len(calls) :
        /\ i < j /\ j < k
        /\ calls[i].op = "on_text"
        /\ calls[j].op = "on_backtrack"
        /\ calls[j + 1].op = "stream"
        /\ calls[k].op = "on_text"

CountIn(cs, op) == Cardinality({i \in 1..Len(cs) : cs[i].op = op})

\* a step in which the stream yields a delta, and the tokens feed() returns
Yielded == deltas_used' = deltas_used + 1

YieldedTokens == feed(parser, last_delta').result

\* a step in which inference.cancel() returned and the backtrack is executed
Executed == pc = "await_cancel" /\ pc' = "await_on_backtrack"

\* the stored record an executing backtrack names
Target == ctx.checkpoints[Head(pending).checkpoint_id]

\* C6: rewind faithfulness.  An executed backtrack to the stored record r
\* leaves accumulated equal to r.accumulated_text, of length r.position, and
\* passes that text to on_backtrack; the rewound text is a prefix of the
\* text before the backtrack.
C6_RewindFaithful ==
    [][Executed =>
          /\ ctx'.accumulated = Target.accumulated_text
          /\ Len(ctx'.accumulated) = Target.position
          /\ calls' = Append(calls, [op |-> "on_backtrack", bt |-> Head(pending),
                                     text |-> Target.accumulated_text])
          /\ StartsWith(ctx.accumulated, ctx'.accumulated)]_vars

\* a backtrack that keeps " " and discards "xy"
C6_Witness ==
    /\ pc = "await_on_backtrack"
    /\ ctx.accumulated = <<" ">>
    /\ \E i \in 1..Len(calls) : calls[i] = [op |-> "on_text", text |-> <<"x", "y">>]
    /\ LastCall.text = <<" ">>

\* C7: monotone budget.  bt_count is 0 when a run starts, goes up by one in
\* each step that executes a backtrack and is unchanged by every other step,
\* equals the number of on_backtrack calls, and never exceeds max_backtracks.
C7_MonotoneBudget ==
    [][/\ runs' # runs => ctx'.bt_count = 0
       /\ runs' = runs =>
              ctx'.bt_count = IF Executed THEN ctx.bt_count + 1 ELSE ctx.bt_count
       /\ ctx'.bt_count = CountIn(calls', "on_backtrack")
       /\ ctx'.bt_count <= max_backtracks]_vars

\* a backtrack arrives when the budget is used up
C7_Witness ==
    /\ ctx.bt_count = max_backtracks
    /\ pc = "await_on_text_exhausted"

\* C8: checkpoint pruning.  An executed backtrack to record r leaves no
\* stored record with position > r.position; and a backtrack that names an
\* id whose record was admitted in this run and is no longer stored is not
\* executed: no inference.cancel() and no on_backtrack.
C8_Pruning ==
    [][/\ Executed =>
              \A k \in DOMAIN ctx'.checkpoints :
                  ctx'.checkpoints[k].position <= Target.position
       /\ (/\ Yielded
           /\ YieldedTokens # <<>>
           /\ YieldedTokens[1].type = "Backtrack"
           /\ YieldedTokens[1].checkpoint_id \in stale) =>
              /\ pc' # "await_cancel"
              /\ CountIn(calls', "cancel") = CountIn(calls, "cancel")
              /\ CountIn(calls', "on_backtrack") = CountIn(calls, "on_backtrack")]_vars

\* after a backtrack to a pruned b, a backtrack to b is dropped within budget
C8_Witness ==
    /\ pc = "await_delta"
    /\ <<"b">> \in stale
    /\ last_delta = D_btB
    /\ ctx.bt_count = 1
    /\ LastCall.op = "stream"

\* C9: budget exhaustion.  A backtrack processed with bt_count >=
\* max_backtracks invokes on_text with the sentinel and changes nothing
\* else; when on_text has returned the sentinel is appended to accumulated,
\* bt_count, checkpoints, hints, mode and temperature are as before, nothing
\* is cancelled or restarted and the same stream and parser go on.  So
\* on_backtrack is invoked at most max_backtracks times in a run.
C9_BudgetExhaustion ==
    [][/\ (/\ Yielded
           /\ YieldedTokens # <<>>
           /\ YieldedTokens[1].type = "Backtrack"
           /\ ctx.bt_count >= max_backtracks) =>
              /\ pc' = "await_on_text_exhausted"
              /\ calls' = Append(calls, [op |-> "on_text", text |-> BUDGET_EXHAUSTED])
              /\ ctx' = ctx
       /\ (pc = "await_on_text_exhausted" /\ pc' \notin {"exited", "await_on_error"}) =>
              /\ StartsWith(ctx'.accumulated, ctx.accumulated \o BUDGET_EXHAUSTED)
              /\ ctx'.bt_count = ctx.bt_count
              /\ ctx'.hints = ctx.hints
              /\ ctx'.mode = ctx.mode
              /\ ctx'.temperature = ctx.temperature
              /\ parser' = parser
              /\ \A op \in {"cancel", "on_backtrack", "stream", "on_error"} :
                     CountIn(calls', op) = CountIn(calls, op)
              /\ pending = <<>> =>
                     /\ ctx'.accumulated = ctx.accumulated \o BUDGET_EXHAUSTED
                     /\ ctx'.checkpoints = ctx.checkpoints
                     /\ calls' = calls
                     /\ pc' = "await_delta"
       /\ CountIn(calls', "on_backtrack") <= max_backtracks]_vars

\* the stream is read on after the sentinel
C9_Witness ==
    /\ pc = "await_delta"
    /\ ctx.bt_count = max_backtracks
    /\ LastCall = [op |-> "on_text", text |-> BUDGET_EXHAUSTED]
    /\ EndsWith(ctx.accumulated, BUDGET_EXHAUSTED)

\* a step in which the stream yields just a backtrack naming an unknown id
UnknownYielded ==
    /\ Yielded
    /\ Len(YieldedTokens) = 1
    /\ YieldedTokens[1].type = "Backtrack"
    /\ YieldedTokens[1].checkpoint_id \notin DOMAIN ctx.checkpoints

SilentDrop ==
    /\ calls' = calls
    /\ ctx' = ctx
    /\ messages' = messages
    /\ pc' = "await_delta"

\* C10 as stated: a backtrack whose checkpoint_id is not in the checkpoint
\* set is dropped silently in every state of the run.
C10_UnknownAlwaysDropped == [][UnknownYielded => SilentDrop]_vars

\* C10 amended: a backtrack whose checkpoint_id is not in the checkpoint set
\* is dropped silently when bt_count < max_backtracks: no callback, no
\* cancel, the context unchanged, the stream read on.  With the budget used
\* up the budget check comes first and on_text receives the sentinel.
C10_UnknownDroppedWithinBudget ==
    [][UnknownYielded =>
          IF ctx.bt_count < max_backtracks
          THEN SilentDrop
          ELSE /\ pc' = "await_on_text_exhausted"
               /\ calls' = Append(calls, [op |-> "on_text",
                                          text |-> BUDGET_EXHAUSTED])]_vars

\* after " ", a backtrack to the unknown id a was dropped
C10_Witness ==
    /\ pc = "await_delta"
    /\ last_delta = D_btBad
    /\ <<"a">> \notin DOMAIN ctx.checkpoints
    /\ ctx.bt_count < max_backtracks
    /\ ctx.accumulated = <<" ">>
    /\ LastCall.op = "on_text"

\* the backtrack event a delta holds, as the parser emits it for a fresh
\* attempt: the fields as the model wrote them
RawBacktrack(delta) ==
    LET toks == feed(NewParser, delta).result
    IN  toks[CHOOSE k \in 1..Len(toks) : toks[k].type = "Backtrack"]

KnownMode(bt) == bt.mode # None /\ Val(bt.mode) \in DOMAIN modes

InRangeTemp(bt) ==
    bt.temperature # None /\ 0 <= Val(bt.temperature) /\ Val(bt.temperature) <= 10

\* C11: an invalid optional field never blocks a backtrack.  A backtrack to
\* a stored checkpoint within budget cancels the stream whatever its mode
\* and temperature fields are; when it executes, the run's mode changes only
\* to a mode that is a key of settings.modes and the temperature override
\* only to a temperature within [0.0, 1.0], otherwise both stay as they
\* were, while the text is rewound, later records are pruned, the reason is
\* appended to the hints, the counter goes up by one and on_backtrack is
\* invoked; when on_backtrack returns the next attempt is started.
C11_InvalidFieldsIgnored ==
    [][/\ (/\ Yielded
           /\ YieldedTokens # <<>>
           /\ YieldedTokens[1].type = "Backtrack"
           /\ YieldedTokens[1].checkpoint_id \in DOMAIN ctx.checkpoints
           /\ ctx.bt_count < max_backtracks) =>
              /\ YieldedTokens[1] = RawBacktrack(last_delta')
              /\ pc' = "await_cancel"
              /\ calls' = Append(calls, [op |-> "cancel"])
              /\ ctx' = ctx
       /\ Executed =>
              LET raw == RawBacktrack(last_delta)
                  rec == ctx.checkpoints[raw.checkpoint_id]
              IN  /\ ctx'.mode = IF KnownMode(raw) THEN Val(raw.mode) ELSE ctx.mode
                  /\ ctx'.temperature =
                         IF InRangeTemp(raw) THEN raw.temperature ELSE ctx.temperature
                  /\ ctx'.accumulated = rec.accumulated_text
                  /\ \A k \in DOMAIN ctx'.checkpoints :
                         ctx'.checkpoints[k].position <= rec.position
                  /\ ctx'.hints = Append(ctx.hints, raw.reason)
                  /\ ctx'.bt_count = ctx.bt_count + 1
                  /\ Len(calls') = Len(calls) + 1
                  /\ calls'[Len(calls')].op = "on_backtrack"
       /\ (pc = "await_on_backtrack" /\ pc' = "await_delta") =>
              /\ Len(calls') = Len(calls) + 1
              /\ calls'[Len(calls')].op = "stream"
              /\ ctx' = ctx]_vars

\* after a backtrack that set mode precise and temperature 1.0, a backtrack
\* with an unknown mode and temperature 1.5 has executed and the next
\* attempt runs with precise and 1.0
C11_Witness ==
    /\ pc = "await_delta"
    /\ last_delta = D_btBad
    /\ ctx.bt_count = 2
    /\ ctx.mode = M_precise
    /\ ctx.temperature = Some(10)
    /\ ctx.hints = <<<<"q">>, <<"s">>>>
    /\ LastCall.op = "stream"

\* the tokens a step starts to process inside the loop: those of the delta
\* the stream yields, or those left when on_text returns
Arriving ==
    IF Yielded THEN YieldedTokens
    ELSE IF pc = "await_on_text" /\ phase = "feed" /\ pc' = "await_delta" THEN pending
    ELSE <<>>

\* C12: checkpoint admission.  A checkpoint event is admitted if and only if
\* chars_since >= min_tokens_between_signals when it is processed.  Admitted,
\* a record with position = len(accumulated) and accumulated_text =
\* accumulated is stored under its id and chars_since becomes 0; dropped,
\* checkpoints, chars_since and accumulated are unchanged; no callback fires
\* in either case.  Two checkpoints admitted in the same attempt are
\* separated by at least min_tokens_between_signals characters of text
\* events.
C12_CheckpointAdmission ==
    [][/\ (Len(Arriving) = 1 /\ Arriving[1].type = "Checkpoint") =>
              LET id == Arriving[1].id
              IN  /\ calls' = calls
                  /\ ctx'.accumulated = ctx.accumulated
                  /\ IF ctx.chars_since >= min_tokens_between_signals
                     THEN /\ id \in DOMAIN ctx'.checkpoints
                          /\ ctx'.checkpoints[id].id = id
                          /\ ctx'.checkpoints[id].position = Len(ctx.accumulated)
                          /\ ctx'.checkpoints[id].accumulated_text = ctx.accumulated
                          /\ \A k \in DOMAIN ctx.checkpoints \ {id} :
                                 /\ k \in DOMAIN ctx'.checkpoints
                                 /\ ctx'.checkpoints[k] = ctx.checkpoints[k]
                          /\ DOMAIN ctx'.checkpoints = DOMAIN ctx.checkpoints \cup {id}
                          /\ ctx'.chars_since = 0
                          /\ Admitted
                     ELSE /\ ctx' = ctx
                          /\ ~Admitted
       /\ \A i \in 2..Len(admit_marks') :
              admit_marks'[i] - admit_marks'[i - 1] >= min_tokens_between_signals]_vars

\* a and b were admitted two characters apart, and a checkpoint that came
\* right after b was dropped
C12_Witness ==
    /\ pc = "await_delta"
    /\ last_delta = D_cpA
    /\ admit_marks = <<0, 2>>
    /\ ctx.chars_since = 0
    /\ ctx.checkpoints[<<"a">>].position = 0
    /\ ctx.checkpoints[<<"b">>].position = 2

\* C13: the first checkpoint event of every attempt is admissible.  When a
\* run starts and right after every executed backtrack chars_since equals
\* min_tokens_between_signals, and a checkpoint event that arrives while no
\* checkpoint has been admitted in the attempt, before any text or after
\* some, is admitted.
C13_FirstCheckpointAdmissible ==
    [][/\ (runs' # runs \/ Executed) =>
              ctx'.chars_since = min_tokens_between_signals
       /\ (/\ Len(Arriving) = 1
           /\ Arriving[1].type = "Checkpoint"
           /\ admit_marks = <<>>) =>
              /\ ctx.chars_since = min_tokens_between_signals + TextChars(calls)
              /\ Admitted
              /\ ctx'.checkpoints[Arriving[1].id].position = Len(ctx.accumulated)
              /\ admit_marks' = <<TextChars(calls)>>]_vars

\* the retry after a backtrack starts with a checkpoint, and it is stored
C13_Witness ==
    /\ pc = "await_delta"
    /\ last_delta = D_cpA
    /\ ctx.bt_count = 1
    /\ LastCall.op = "stream"
    /\ admit_marks = <<0>>
    /\ <<"a">> \in DOMAIN ctx.checkpoints

\* the reasons of the backtracks on_backtrack reported, in order
RECURSIVE Reasons(_)
Reasons(cs) ==
    IF cs = <<>> THEN <<>>
    ELSE LET before == Reasons(SubSeq(cs, 1, Len(cs) - 1))
         IN  IF cs[Len(cs)].op = "on_backtrack"
             THEN Append(before, cs[Len(cs)].bt.reason)
             ELSE before

\* C14: hints are additive within a run.  At every point the hint list is
\* the reasons of the backtracks executed so far in this run, in execution
\* order, so its length is bt_count; every attempt's prompt is built from
\* the reasons of the backtracks executed before it; a dropped backtrack
\* (budget exhausted, unknown checkpoint) adds none.
C14_HintsAdditive ==
    /\ ctx.hints = Reasons(calls)
    /\ Len(ctx.hints) = ctx.bt_count
    /\ \A i \in 1..Len(calls) :
           calls[i].op = "stream" =>
               /\ calls[i].hints = Reasons(SubSeq(calls, 1, i - 1))
               /\ Len(calls[i].hints) = CountIn(SubSeq(calls, 1, i - 1), "on_backtrack")

\* the third attempt was given the two reasons in order, and the backtrack
\* that then met the used-up budget has added none
C14_Witness ==
    /\ pc = "await_on_text_exhausted"
    /\ ctx.hints = <<<<"r">>, <<"s">>>>
    /\ ctx.bt_count = 2
    /\ calls[Len(calls) - 1].op = "stream"
    /\ calls[Len(calls) - 1].hints = <<<<"r">>, <<"s">>>>

\* C15: hints reset between runs.  The prompt of the first attempt of every
\* run, also of a run that follows one with executed backtracks, has no
\* "Constraints for This Attempt" section and an empty hint list; the
\* prompt of every attempt that follows an executed backtrack of the run
\* has the section, with one line per executed backtrack.
C15_HintsResetBetweenRuns ==
    /\ calls # <<>> =>
           /\ calls[1].op = "stream"
           /\ calls[1].hints = <<>>
           /\ calls[1].system.constraints = None
    /\ \A i \in 2..Len(calls) :
           calls[i].op = "stream" =>
               /\ calls[i - 1].op = "on_backtrack"
               /\ calls[i].system.constraints # None
               /\ Len(Val(calls[i].system.constraints)) =
                      CountIn(SubSeq(calls, 1, i - 1), "on_backtrack")

\* the second run starts after a first run that executed two backtracks
C15_Witness ==
    /\ runs = 2
    /\ prev_run.bt_count = 2
    /\ prev_run.hints = <<<<"r">>, <<"s">>>>
    /\ Len(calls) = 1
    /\ calls[1].system.constraints = None

\* the conversation of the current run: the prior turns and the new user turn
Conversation == messages0 \o <<UserTurn>>

\* the text the backtrack before the i-th call rewound to
RewoundText(i) == calls[i - 1].text

\* C16 as stated: the first attempt is sent the conversation, and every
\* attempt after a backtrack the conversation, an assistant turn with the
\* rewound text if that is non-empty after trimming, and then the
\* "Continue ..." user turn.
C16_ContinueOnEveryRetry ==
    \A i \in 1..Len(calls) :
        calls[i].op = "stream" =>
            calls[i].messages =
                IF i = 1 THEN Conversation
                ELSE Conversation
                     \o (IF strip(RewoundText(i)) # <<>>
                         THEN <<Message("assistant", RewoundText(i))>> ELSE <<>>)
                     \o <<Message("user", CONTINUE_PROMPT)>>

\* C16 amended: the first attempt is sent exactly the conversation; an
\* attempt after a backtrack is sent the conversation followed by the
\* assistant turn with the rewound text and the "Continue ..." user turn
\* when the rewound text is non-empty after trimming, and exactly the
\* conversation, with neither synthetic turn, when it is empty or blank.
\* The stored conversation stays the prior turns plus the user turn until
\* the commit.
C16_MessageConstruction ==
    /\ \A i \in 1..Len(calls) :
           calls[i].op = "stream" =>
               calls[i].messages =
                   IF i > 1 /\ strip(RewoundText(i)) # <<>>
                   THEN Conversation \o <<Message("assistant", RewoundText(i)),
                                          Message("user", CONTINUE_PROMPT)>>
                   ELSE Conversation
    /\ (pc \in AwaitPoints \ {"await_on_done"}) => messages = Conversation

\* in a second run, a retry after a rewind to "xy" was sent both synthetic
\* turns, and the retry after a rewind to the empty text neither
C16_Witness ==
    /\ runs = 2
    /\ messages0 # <<>>
    /\ Len(calls) > 2
    /\ LastCall.op = "stream"
    /\ RewoundText(Len(calls)) = <<>>
    /\ LastCall.messages = Conversation
    /\ \E i \in 2..Len(calls) :
           /\ calls[i].op = "stream"
           /\ calls[i].messages =
                  Conversation \o <<Message("assistant", <<"x", "y">>),
                                    Message("user", CONTINUE_PROMPT)>>

\* the mode of the last reported backtrack that carried a known mode
RECURSIVE LastMode(_)
LastMode(cs) ==
    IF cs = <<>> THEN default_mode
    ELSE LET ev == cs[Len(cs)]
         IN  IF ev.op = "on_backtrack" /\ KnownMode(ev.bt) THEN Val(ev.bt.mode)
             ELSE LastMode(SubSeq(cs, 1, Len(cs) - 1))

\* the temperature of the last reported backtrack that carried one in range
RECURSIVE LastTemperature(_)
LastTemperature(cs) ==
    IF cs = <<>> THEN None
    ELSE LET ev == cs[Len(cs)]
         IN  IF ev.op = "on_backtrack" /\ InRangeTemp(ev.bt) THEN ev.bt.temperature
             ELSE LastTemperature(SubSeq(cs, 1, Len(cs) - 1))

\* C17: attempt parameters.  Every inference.stream call is given the mode
\* of the most recent executed backtrack of the run that carried a known
\* mode (default_mode if none) and the temperature of the most recent one
\* that carried a temperature within [0.0, 1.0] (None if none); the prompt
\* of the attempt is built with that mode and with the effective
\* temperature: the override if set, else the default temperature of the
\* mode.
C17_AttemptParameters ==
    \A i \in 1..Len(calls) :
        calls[i].op = "stream" =>
            LET before == SubSeq(calls, 1, i - 1)
                ev == calls[i]
            IN  /\ ev.mode = LastMode(before)
                /\ ev.temperature = LastTemperature(before)
                /\ ev.system.state.mode = ev.mode
                /\ ev.system.state.temperature =
                       IF ev.temperature # None THEN Val(ev.temperature)
                       ELSE modes[ev.mode]

\* three attempts: balanced with its default 0.6; precise with the override
\* 1.0; then exploratory from a backtrack without temperature, so the
\* override 1.0 stays and the default 0.9 of exploratory is not used
C17_Witness ==
    /\ CountIn(calls, "stream") = 3
    /\ calls[1].temperature = None
    /\ calls[1].system.state.temperature = 6
    /\ LastCall.op = "stream"
    /\ LastCall.mode = M_exploratory
    /\ LastCall.temperature = Some(10)
    /\ LastCall.system.state.temperature = 10
    /\ \E i \in 2..Len(calls) :
           /\ calls[i].op = "stream"
           /\ calls[i].mode = M_precise
           /\ calls[i].system.state.temperature = 10

\* a step in which inference.stream raises: the run was waiting for a delta,
\* and no delta came, the stream did not end and the task was not cancelled
StreamRaised ==
    /\ pc = "await_delta"
    /\ ~Yielded
    /\ phase' = "feed"
    /\ outcome' # "cancelled"
    /\ runs' = runs

\* C18: inference failure.  When inference.stream raises, in the first
\* attempt or in a retry, before or after text was delivered, on_error is
\* invoked with "Inference error: " followed by the error text; after
\* on_error was invoked the run makes no further call (no attempt, no
\* on_done, no second on_error), the conversation holds no assistant turn
\* of the run, and when the run is left the user turn is removed.
C18_InferenceFailure ==
    [][/\ StreamRaised =>
              /\ \E exc \in InferenceErrors :
                     calls' = Append(calls, [op |-> "on_error",
                                             msg |-> INFERENCE_ERROR \o exc])
              /\ pc' = "await_on_error"
              /\ messages' = Conversation
       /\ (Invoked("on_error") /\ runs' = runs) =>
              /\ calls' = calls
              /\ CountIn(calls, "on_error") = 1
              /\ ~Invoked("on_done")
              /\ pc' = "exited"
              /\ messages' = messages0]_vars

\* the stream raised in a retry after text had been delivered, and the run
\* has returned
C18_Witness ==
    /\ pc = "exited"
    /\ outcome = "returned"
    /\ ctx.bt_count = 1
    /\ LastCall = [op |-> "on_error", msg |-> INFERENCE_ERROR \o <<"n", "e", "t">>]
    /\ calls[Len(calls) - 1].op = "on_text"
    /\ messages0 # <<>>
    /\ messages = messages0

\* the literal l is the tag that the signal event ev was parsed from
LiteralOf(ev, l) ==
    IF ev.type = "TextChunk" THEN l = ev.text
    ELSE IF ev.type = "Checkpoint" THEN l = S_open \o S_checkpoint \o ev.id \o S_close
    ELSE LET head == S_open \o S_backtrack \o ev.checkpoint_id \o <<"|">> \o ev.reason
         IN  /\ StartsWith(l, head)
             /\ EndsWith(l, S_close)
             /\ Len(l) >= Len(head) + 2
             /\ Len(l) > Len(head) + 2 => l[Len(head) + 1] = "|"

\* the text and the tag literals of the events returned so far, in order
Rendering == Concat([i \in 1..Len(p_out) |-> p_out[i].literal])

\* what flush() would give out
Unemitted(p) == Concat(Texts(flush(p).result))

\* C19: parser soundness.  For every input and every chunking, each event
\* returned has its literal (the text of a Text event, the "<<...>>" tag a
\* signal was parsed from), and at every point the literals of the events
\* returned so far, in order, followed by what the parser still holds, are
\* exactly the characters fed so far; after flush() they are the input.
C19_ParserSoundness ==
    /\ \A i \in 1..Len(p_out) : LiteralOf(p_out[i].event, p_out[i].literal)
    /\ Rendering \o Unemitted(p_parser) = SubSeq(p_input, 1, p_pos)
    /\ p_done => (Rendering = p_input /\ p_parser = NewParser)

\* the oversize tag came back as text and the tag after it was parsed
C19_Witness ==
    /\ p_done
    /\ p_input = I_oversize
    /\ Rendering = I_oversize
    /\ Len(p_out) = 2
    /\ p_out[1].event.type = "TextChunk"
    /\ Len(p_out[1].event.text) > MAX_SIGNAL_LENGTH
    /\ p_out[2] = Entry(Checkpoint(<<"b">>), S_open \o S_checkpoint \o <<"b">> \o S_close)

\* the events of feeding s in one call and flushing
FlushAfter(f) == f.result \o flush(f.parser).result

OneCall(s) == FlushAfter(feed(NewParser, s))

\* C20: chunk independence.  Whatever the chunks, after the flush the
\* events, with adjacent Text events merged, are those of feeding the input
\* in one call and flushing: the same signals with the same fields in the
\* same order, and the same text between them.
C20_ChunkIndependence ==
    p_done => Events(p_out) = MergeText(OneCall(p_input))

\* the input with a backtrack tag that carries extras has been fed and
\* flushed; every chunking of it ends in this state
C20_Witness ==
    /\ p_done
    /\ p_input = I_backtrack
    /\ Events(p_out) = <<Backtrack(<<"k">>, <<"r">>, None, Some(<<"m">>), Some(5)),
                         TextChunk(<<"c", "<">>)>>

\* sub occurs in s
Contains(s, sub) ==
    \E i \in 1..(Len(s) - Len(sub) + 1) : SubSeq(s, i, i + Len(sub) - 1) = sub

\* l reads "<<" name body ">>", and body holds no ">>" and does not end in ">"
TagForm(l, name) ==
    /\ StartsWith(l, S_open \o name)
    /\ EndsWith(l, S_close)
    /\ Len(l) >= Len(name) + 4
    /\ ~Contains(SubSeq(l, Len(name) + 3, Len(l) - 1), S_close)

\* l has the form <<checkpoint:ID>> with an ID
CheckpointForm(l) ==
    /\ TagForm(l, S_checkpoint)
    /\ Len(l) > Len(S_checkpoint) + 4

\* l has the form <<backtrack:ID|REASON...>> with an ID and a REASON
BacktrackForm(l) ==
    /\ TagForm(l, S_backtrack)
    /\ LET body == SubSeq(l, Len(S_backtrack) + 3, Len(l) - 2)
       IN  \E i \in 2..(Len(body) - 1) :
               /\ body[i] = "|"
               /\ \A j \in 1..(i - 1) : body[j] # "|"
               /\ body[i + 1] # "|"

\* the place in the input where the literal of the i-th event starts
Offset(i) == Len(Concat([j \in 1..(i - 1) |-> p_out[j].literal]))

\* C21: false-positive avoidance.  A Checkpoint or Backtrack event is given
\* out only for a segment of the input of the exact form <<checkpoint:ID>>
\* or <<backtrack:ID|REASON...>>, and an input with no occurrence of
\* "<<checkpoint:" or "<<backtrack:" gives only Text events, whose
\* concatenation after flush() is the input.
C21_NoFalsePositives ==
    /\ \A i \in 1..Len(p_out) :
           p_out[i].event.type # "TextChunk" =>
               /\ SubSeq(p_input, Offset(i) + 1, Offset(i) + Len(p_out[i].literal))
                      = p_out[i].literal
               /\ p_out[i].event.type = "Checkpoint" => CheckpointForm(p_out[i].literal)
               /\ p_out[i].event.type = "Backtrack" => BacktrackForm(p_out[i].literal)
    /\ (\A prefix \in _TAG_PREFIXES : ~Contains(p_input, S_open \o prefix)) =>
           /\ \A i \in 1..Len(p_out) : p_out[i].event.type = "TextChunk"
           /\ p_done => Concat(Texts(Events(p_out))) = p_input

\* "<< something >>" has been fed and flushed and came back as one Text event
C21_Witness ==
    /\ p_done
    /\ p_input = I_spaced
    /\ Events(p_out) = <<TextChunk(I_spaced)>>

\* the input came back as text only
OnlyText ==
    /\ \A i \in 1..Len(p_out) : p_out[i].event.type = "TextChunk"
    /\ Concat(Texts(Events(p_out))) = p_input

\* the input, one checkpoint tag, was parsed into its Checkpoint event
ParsedCheckpoint ==
    Events(p_out) =
        <<Checkpoint(SubSeq(p_input, Len(S_checkpoint) + 3, Len(p_input) - 2))>>

\* C22: signal length boundary.  A well-formed tag whose content between
\* "<<" and ">>" is exactly MAX_SIGNAL_LENGTH characters long is parsed into
\* a signal event, and a tag whose content is one character longer is given
\* out as literal text.
C22_LengthBoundary ==
    p_done =>
        /\ p_input = I_limit => ParsedCheckpoint
        /\ p_input = I_limit_plus => OnlyText

\* C22, as the parser behaves: the characters buffered after "<<", the closing
\* ">>" among them, may number MAX_SIGNAL_LENGTH, so content of
\* MAX_SIGNAL_LENGTH - 2 characters is parsed and any longer content is
\* given out as text.
C22_BufferBoundary ==
    p_done =>
        /\ p_input = I_fits => ParsedCheckpoint
        /\ p_input \in {I_fits_plus, I_limit, I_limit_plus} => OnlyText

\* the tag with content of exactly MAX_SIGNAL_LENGTH characters has been fed
\* and flushed and came back as text
C22_Witness ==
    /\ p_done
    /\ p_input = I_limit
    /\ Len(p_input) = MAX_SIGNAL_LENGTH + 4
    /\ Events(p_out) = <<TextChunk(I_limit)>>

\* the place in I_bad_then_good where the k-th malformed tag ends
BadEnd(k) == Len(Concat(SubSeq(BadTags, 1, k)))

\* C23: malformed tags degrade to text.  A closed tag with a valid prefix
\* that does not parse (a checkpoint with an empty id; a backtrack with an
\* empty id, with no "|" or with an empty reason) gives no signal event and
\* its whole literal is in the Text output unchanged; the parser is then in
\* TEXT, and a well-formed tag that follows is recognized.
C23_MalformedDegrade ==
    p_input = I_bad_then_good =>
        /\ p_pos <= BadEnd(Len(BadTags)) =>
               \A i \in 1..Len(p_out) : p_out[i].event.type = "TextChunk"
        /\ \A k \in 1..Len(BadTags) :
               p_pos = BadEnd(k) =>
                   /\ p_parser = NewParser
                   /\ Events(p_out) = <<TextChunk(Concat(SubSeq(BadTags, 1, k)))>>
        /\ p_done =>
               Events(p_out) = <<TextChunk(Concat(BadTags)),
                                 Checkpoint(<<"a">>), TextChunk(<<"t">>)>>

\* the six malformed tags came back as text, the checkpoint after them was
\* parsed
C23_Witness ==
    /\ p_done
    /\ p_input = I_bad_then_good
    /\ Len(p_out) = 3
    /\ p_out[1].event = TextChunk(Concat(BadTags))
    /\ p_out[2].event.type = "Checkpoint"

\* the open state of p as literal text: "<" in MAYBE_OPEN, "<<" and a partial
\* prefix in TAG_CHECK, "<<", a prefix and a partial body in IN_SIGNAL
Reified(p) ==
    IF p.state = "MAYBE_OPEN" /\ p.buffer = <<>> THEN <<"<">>
    ELSE IF /\ p.state = "TAG_CHECK"
            /\ \E prefix \in _TAG_PREFIXES :
                   StartsWith(prefix, p.buffer) /\ p.buffer # prefix
    THEN S_open \o p.buffer
    ELSE IF /\ p.state = "IN_SIGNAL"
            /\ \E prefix \in _TAG_PREFIXES : StartsWith(p.buffer, prefix)
    THEN S_open \o p.buffer
    ELSE <<>>

\* f is what flush() returns when called on p, g what a second flush() returns
FlushSemantics(p, f, g) ==
    /\ \A i \in 1..Len(f.result) :
           f.result[i].type = "TextChunk" /\ f.result[i].text # <<>>
    /\ Len(f.result) <= 1
    /\ p.state # "TEXT" => Reified(p) # <<>>
    /\ Concat(Texts(f.result)) = p.text_buffer \o Reified(p)
    /\ f.parser = NewParser
    /\ g.result = <<>>
    /\ g.parser = NewParser
    /\ p.state = "TEXT" => f.result = <<>>

\* C24: flush() semantics.  Called on the parser after any sequence of
\* feeds, flush() returns only Text events, at most one and not empty: the
\* pending text followed by the open state as literal text.  Afterwards the
\* parser is in TEXT with both buffers empty and a second flush() returns
\* nothing.  On a fresh parser, after an empty feed and after a feed that
\* left the parser in TEXT, flush() returns an empty list.
C24_FlushSemantics ==
    /\ FlushSemantics(p_parser, flush(p_parser), flush(flush(p_parser).parser))
    /\ p_pos = 0 => flush(feed(p_parser, <<>>).parser).result = <<>>
    /\ p_done => p_parser = NewParser

\* the input that ends inside a tag body has been flushed: the open tag came
\* back as text
C24_Witness ==
    /\ p_done
    /\ p_input = I_cut_body
    /\ Events(p_out) = <<TextChunk(I_cut_body)>>

\* a step in which cancel() is called
CancelCalled == cancels' = cancels + 1

\* no stream() call has run as far as opening an SDK stream
NeverStarted == \A i \in 1..Len(streams) : streams[i].kwargs = None

\* the call before was a cancel() that returned
SecondInRow == last_op = "cancel" /\ cancel_pc = "idle" /\ ~cancel_raised

\* a stream was started, none is open, and the stream started last ended
\* normally
FinishedNormally ==
    /\ ~NeverStarted
    /\ \A i \in 1..Len(streams) : ~streams[i].open
    /\ \E i \in 1..Len(streams) :
           /\ streams[i].gen = "finished"
           /\ \A j \in (i + 1)..Len(streams) : streams[j].kwargs = None

\* the call makes no close() and returns at once
NoOp ==
    /\ closed_by_cancel' = None
    /\ cancel_pc' = "idle"
    /\ ~cancel_raised'
    /\ streams' = streams
    /\ _active_stream' = _active_stream

\* C25: cancel() closes the stream in flight if there is one and is
\* otherwise a no-op.  When cancel() has returned the manager holds no
\* active stream; called when no stream was ever started, a second time in
\* a row, or when the last stream has already finished normally, it makes
\* no close() and raises nothing.
C25_CancelIdleNoop ==
    [][/\ (CancelCalled /\ (NeverStarted \/ SecondInRow \/ FinishedNormally)) => NoOp
       /\ (CancelCalled /\ \E i \in 1..Len(streams) : streams[i].open) =>
              /\ _active_stream # None
              /\ streams[Val(_active_stream)].open
              /\ closed_by_cancel' = _active_stream
       /\ (last_op' = "cancel" /\ cancel_pc' = "idle" /\ ~cancel_raised') =>
              _active_stream' = None]_vars

\* C25, as the manager behaves: cancel() calls close() on whatever
\* _active_stream holds, and that is the stream whose generator body ran
\* last, open or not; when cancel() has returned _active_stream is None;
\* called when no stream was ever started or a second time in a row, it
\* makes no close() and raises nothing.
C25_CancelClosesHeld ==
    [][/\ CancelCalled =>
              IF _active_stream = None THEN NoOp
              ELSE /\ closed_by_cancel' = _active_stream
                   /\ cancel_pc' = "await_close"
                   /\ streams[Val(_active_stream)].kwargs # None
       /\ (CancelCalled /\ (NeverStarted \/ SecondInRow)) => NoOp
       /\ (last_op' = "cancel" /\ cancel_pc' = "idle" /\ ~cancel_raised') =>
              _active_stream' = None]_vars

\* cancel() was called after the only stream had finished normally, and it
\* is awaiting close() on that stream
C25_Witness ==
    /\ Len(streams) = 1
    /\ streams[1].gen = "finished"
    /\ ~streams[1].open
    /\ cancels = 1
    /\ cancel_pc = "await_close"
    /\ closed_by_cancel = Some(1)

\* the fields of the context that a checkpoint admitted earlier in the same
\* step does not touch
BacktrackFields(c) ==
    <<c.accumulated, c.hints, c.mode, c.temperature, c.bt_count>>

\* C26: cancel before the context changes.  A backtrack that is executed has
\* inference.cancel() awaited exactly once, after the budget, checkpoint-id
\* and optional-field checks and before any field of the context is
\* changed; a dropped backtrack makes no cancel(); and when cancel() fails
\* or the task is cancelled while it is awaited, the context is as it was
\* before the backtrack.
C26_CancelBeforeMutation ==
    [][/\ (Arriving # <<>> /\ Arriving[1].type = "Backtrack") =>
              LET bt == Arriving[1]
              IN  IF \/ ctx.bt_count >= max_backtracks
                     \/ bt.checkpoint_id \notin DOMAIN ctx.checkpoints
                  THEN /\ pc' # "await_cancel"
                       /\ CountIn(calls', "cancel") = CountIn(calls, "cancel")
                  ELSE /\ pc' = "await_cancel"
                       /\ calls' = Append(calls, [op |-> "cancel"])
                       /\ ctx' = ctx
                       /\ Head(pending').checkpoint_id = bt.checkpoint_id
                       /\ Head(pending').reason = bt.reason
                       /\ Head(pending').mode \in {None, bt.mode}
                       /\ Truthy(Head(pending').mode) =>
                              Val(Head(pending').mode) \in DOMAIN modes
                       /\ Head(pending').temperature \in {None, bt.temperature}
                       /\ Head(pending').temperature # None =>
                              Val(Head(pending').temperature) \in 0..10
       /\ (pc # "await_cancel" /\ pc' = "await_cancel") =>
              /\ calls'[Len(calls')] = [op |-> "cancel"]
              /\ CountIn(calls', "cancel") = CountIn(calls, "cancel") + 1
              /\ BacktrackFields(ctx') = BacktrackFields(ctx)
              /\ ctx'.bt_count < max_backtracks
              /\ Head(pending').checkpoint_id \in DOMAIN ctx'.checkpoints
       /\ pc = "await_cancel" =>
              /\ CountIn(calls', "cancel") = CountIn(calls, "cancel")
              /\ IF pc' = "await_on_backtrack"
                 THEN /\ ctx'.bt_count = ctx.bt_count + 1
                      /\ calls' = Append(calls, calls'[Len(calls')])
                      /\ calls'[Len(calls')].op = "on_backtrack"
                 ELSE /\ ctx' = ctx
                      /\ CountIn(calls', "on_backtrack") = CountIn(calls, "on_backtrack")
       /\ \A i \in 1..Len(calls') :
              /\ calls'[i].op = "on_backtrack" => (i > 1 /\ calls'[i - 1].op = "cancel")
              /\ (calls'[i].op = "cancel" /\ i < Len(calls')) =>
                     calls'[i + 1].op \in {"on_backtrack", "on_error"}]_vars

\* inference.cancel() failed for the first backtrack of a run: it was
\* reported through on_error and the context is not rewound
C26_Witness ==
    /\ pc = "await_on_error"
    /\ Len(calls) > 2
    /\ calls[Len(calls) - 1].op = "cancel"
    /\ ctx.bt_count = 0
    /\ ctx.hints = <<>>
    /\ ctx.accumulated # <<>>
    /\ DOMAIN ctx.checkpoints # {}

\* the texts given to on_text by the calls of a log, in order
RECURSIVE Forwarded(_)
Forwarded(cs) ==
    IF cs = <<>> THEN <<>>
    ELSE (IF Head(cs).op = "on_text" THEN Head(cs).text ELSE <<>>)
             \o Forwarded(Tail(cs))

\* the place of the last call of a kind in a log, 0 when there is none
LastIndex(cs, op) ==
    LET at == {i \in 1..Len(cs) : cs[i].op = op}
    IN  IF at = {} THEN 0 ELSE CHOOSE i \in at : \A j \in at : j <= i

\* C27: nothing of the aborted attempt survives a backtrack.  The step that
\* executes a backtrack sets accumulated to the target's text, forwards
\* nothing to on_text and stores no checkpoint, whatever tokens of the same
\* delta follow the tag and whatever the parser still buffers; while
\* on_backtrack is awaited the context stays as it is; the next attempt
\* starts with a fresh parser in TEXT state and no token left over; and from
\* then on accumulated is the rewound text followed by exactly the texts
\* forwarded to on_text after the backtrack.
C27_NothingSurvives ==
    [][/\ (pc = "await_cancel" /\ pc' = "await_on_backtrack") =>
              LET target == ctx.checkpoints[Head(pending).checkpoint_id]
              IN  /\ ctx'.accumulated = target.accumulated_text
                  /\ ctx'.accumulated_raw = target.accumulated_raw
                  /\ \A k \in DOMAIN ctx'.checkpoints :
                         /\ k \in DOMAIN ctx.checkpoints
                         /\ ctx'.checkpoints[k] = ctx.checkpoints[k]
                  /\ Forwarded(calls') = Forwarded(calls)
       /\ pc = "await_on_backtrack" =>
              /\ ctx' = ctx
              /\ Forwarded(calls') = Forwarded(calls)
              /\ pc' = "await_delta" =>
                     /\ parser' = NewParser
                     /\ parser'.state = "TEXT"
                     /\ pending' = <<>>
                     /\ calls' = Append(calls, calls'[Len(calls')])
                     /\ calls'[Len(calls')].op = "stream"
       /\ (/\ LastIndex(calls', "on_backtrack") > 0
           /\ pc' \in {"await_delta", "await_on_text", "await_on_done"}) =>
              LET k == LastIndex(calls', "on_backtrack")
              IN  ctx'.accumulated =
                      calls'[k].text
                          \o Forwarded(SubSeq(calls', k + 1, Len(calls')))]_vars

\* the next attempt has started after a backtrack whose delta went on with
\* text and an unfinished tag
C27_Witness ==
    /\ pc = "await_delta"
    /\ last_delta = D_btA
    /\ Len(calls) > 2
    /\ calls[Len(calls)].op = "stream"
    /\ calls[Len(calls) - 1].op = "on_backtrack"
    /\ parser = NewParser
    /\ pending = <<>>

\* calls of inference.stream made so far in the run
StreamCalls == CountIn(calls, "stream")

\* a backtrack was executed and counted (line 229) and the attempt that
\* follows it has not been started: on_backtrack is awaited (line 231), or
\* the run ended there
RestartPending == LastIndex(calls, "on_backtrack") > LastIndex(calls, "stream")

\* C28 as stated: at every point of a run the number of inference.stream
\* calls made so far is 1 + backtracks_used.
C28_AlwaysOnePlusUsed ==
    pc \in AwaitPoints => StreamCalls = 1 + ctx.bt_count

\* C28: attempts of a run.  A run that ends in on_done has made exactly
\* 1 + backtracks_used calls of inference.stream.  During a run, and when
\* it has ended, the number of calls made so far is 1 + backtracks_used,
\* except from the moment an executed backtrack is counted until the next
\* attempt starts: while on_backtrack is awaited, and after a run that
\* ended there, it is backtracks_used.  It is never more than
\* 1 + max_backtracks.
C28_StreamCalls ==
    /\ pc = "await_on_backtrack" => RestartPending
    /\ pc \in AwaitPoints \cup {"exited"} =>
           /\ StreamCalls = IF RestartPending THEN ctx.bt_count
                            ELSE 1 + ctx.bt_count
           /\ StreamCalls >= 1
           /\ StreamCalls <= 1 + max_backtracks
           /\ CountIn(calls, "on_backtrack") = ctx.bt_count
    /\ (pc = "await_on_done" \/ CountIn(calls, "on_done") > 0) =>
           /\ ~RestartPending
           /\ StreamCalls = 1 + ctx.bt_count

\* a run is about to end in on_done after using its whole budget
C28_Witness ==
    /\ pc = "await_on_done"
    /\ ctx.bt_count = max_backtracks
    /\ StreamCalls = 1 + max_backtracks

\* the stored records, listed in the order in which they were admitted
InAdmissionOrder == [i \in 1..Len(admission) |-> ctx.checkpoints[admission[i]]]

\* C29: checkpoint-set invariants.  In every state each stored record is
\* stored under its own id and the length of its accumulated_text is its
\* position, and the stored records listed in the order in which they were
\* admitted (a re-used id counts from its last admission) have
\* non-decreasing positions.
C29_CheckpointSet ==
    /\ \A k \in DOMAIN ctx.checkpoints :
           /\ ctx.checkpoints[k].id = k
           /\ Len(ctx.checkpoints[k].accumulated_text) = ctx.checkpoints[k].position
    /\ {admission[i] : i \in 1..Len(admission)} = DOMAIN ctx.checkpoints
    /\ Len(admission) = Cardinality(DOMAIN ctx.checkpoints)
    /\ \A i, j \in 1..Len(admission) :
           i < j => InAdmissionOrder[i].position <= InAdmissionOrder[j].position

\* after a backtrack to b, id a was used again: its new record was admitted
\* after b's, at b's position, while a dict lists a before b
C29_Witness ==
    /\ admission = << <<"b">>, <<"a">> >>
    /\ ctx.bt_count = 1
    /\ ctx.checkpoints[<<"a">>].position = ctx.checkpoints[<<"b">>].position
    /\ ctx.checkpoints[<<"a">>].position > 0

\* C30: checkpoint id re-use overwrites.  When a checkpoint event whose id
\* is already stored is admitted, the set has the same ids as before and
\* the id's record is the new one: its position and snapshot are those of
\* the text at that moment, which begins with the old record's text, and
\* the text is left as it is.  When the event is not admitted (too soon),
\* nothing changes.  A stored record changes in no other way, and a
\* backtrack rewinds accumulated to the text of the record stored under
\* its id at that moment, so after a re-use to the later anchor.
C30_ReuseOverwrites ==
    [][/\ (/\ Len(Arriving) = 1
           /\ Arriving[1].type = "Checkpoint"
           /\ Arriving[1].id \in DOMAIN ctx.checkpoints) =>
              LET id == Arriving[1].id
                  old == ctx.checkpoints[id]
              IN  IF ctx.chars_since >= min_tokens_between_signals
                  THEN /\ DOMAIN ctx'.checkpoints = DOMAIN ctx.checkpoints
                       /\ ctx'.checkpoints[id] =
                              [id |-> id, position |-> Len(ctx.accumulated),
                               accumulated_text |-> ctx.accumulated,
                               accumulated_raw |->
                                   ctx.accumulated_raw \o S_checkpoint_raw(id)]
                       /\ \A k \in DOMAIN ctx.checkpoints \ {id} :
                              ctx'.checkpoints[k] = ctx.checkpoints[k]
                       /\ ctx'.checkpoints[id].position >= old.position
                       /\ StartsWith(ctx'.checkpoints[id].accumulated_text,
                                     old.accumulated_text)
                       /\ ctx'.accumulated = ctx.accumulated
                       /\ admission'[Len(admission')] = id
                  ELSE /\ ctx' = ctx
                       /\ admission' = admission
       /\ \A k \in DOMAIN ctx.checkpoints \cap DOMAIN ctx'.checkpoints :
              ctx'.checkpoints[k] # ctx.checkpoints[k] =>
                  /\ Admitted
                  /\ AdmittedIds = {k}
       /\ Executed =>
              LET id == Head(pending).checkpoint_id
              IN  /\ ctx'.accumulated = ctx.checkpoints[id].accumulated_text
                  /\ Len(ctx'.accumulated) = ctx.checkpoints[id].position
                  /\ ctx'.checkpoints[id] = ctx.checkpoints[id]]_vars

\* b was stored after "xy" and stored again after "xyxy"; the backtrack to
\* b has rewound to "xyxy"
C30_Witness ==
    /\ pc = "await_on_backtrack"
    /\ ctx.bt_count = 1
    /\ LastCall.bt.checkpoint_id = <<"b">>
    /\ Forwarded(calls) = <<"x", "y", "x", "y">>
    /\ ctx.accumulated = <<"x", "y", "x", "y">>
    /\ ctx.checkpoints[<<"b">>].position = 4
    /\ DOMAIN ctx.checkpoints = {<<"b">>}

\* the literals of the signal events returned so far, in order
SignalLiterals ==
    LET sig == SelectSeq(p_out, LAMBDA e : e.event.type # "TextChunk")
    IN  [i \in 1..Len(sig) |-> sig[i].literal]

\* the tags among the parts of an input, in order
TagsOf(parts) ==
    LET tags == SelectSeq(parts, LAMBDA p : p.tag)
    IN  [i \in 1..Len(tags) |-> tags[i].s]

\* the tags of an input that do not come right after text ending in '<'
TagsNotAfterLt(parts) ==
    LET at == {i \in 1..Len(parts) :
                  /\ parts[i].tag
                  /\ ~(/\ i > 1
                       /\ ~parts[i - 1].tag
                       /\ EndsWith(parts[i - 1].s, <<"<">>))}
        RECURSIVE Pick(_)
        Pick(i) ==
            IF i > Len(parts) THEN <<>>
            ELSE (IF i \in at THEN <<parts[i].s>> ELSE <<>>) \o Pick(i + 1)
    IN  Pick(1)

\* C31 as stated: every well-formed tag of an input is given out as a signal
\* event, in input order, whatever plain text precedes it, text that
\* contains or ends with '<' included.
C31_EveryTagEmitted ==
    \A t \in TaggedInputs :
        (p_done /\ p_input = Join(t)) => SignalLiterals = TagsOf(t)

\* C31, as the parser behaves: every well-formed tag is given out, in input
\* order, except a tag that comes right after text ending in '<': the '<'
\* and the tag's "<<" make "<<<", which TAG_CHECK rejects, and the tag comes
\* back as text.
C31_TagEmittedUnlessAfterLt ==
    \A t \in TaggedInputs :
        (p_done /\ p_input = Join(t)) =>
            /\ SignalLiterals = TagsNotAfterLt(t)
            /\ Concat([i \in 1..Len(p_out) |-> p_out[i].literal]) = p_input

\* "<a <<checkpoint:x>>" was fed and flushed: the checkpoint was found
C31_Witness ==
    /\ p_done
    /\ p_input = Join(T_nested)
    /\ Events(p_out) = <<TextChunk(<<"<", "a", " ">>), Checkpoint(<<"x">>)>>

\* the turns of the workers that returned, in the order they were started
RECURSIVE TurnsOfReturned(_)
TurnsOfReturned(i) ==
    IF i > Len(workers) THEN <<>>
    ELSE (IF workers[i].outcome = "returned"
          THEN <<Turn("user", i), Turn("assistant", i)>> ELSE <<>>)
             \o TurnsOfReturned(i + 1)

\* the conversation holds the turns of worker i
Has(i) == \E k \in 1..Len(w_conv) : w_conv[k].owner = i

\* a cleanup removes the user turn of its own run and no other, and a run
\* that is under way has its user turn in the conversation
OwnTurnOnly ==
    /\ \A i \in 1..Len(workers) :
           /\ workers[i].outcome = "cancelled" => ~Has(i)
           /\ workers[i].pc \in {"await_delta", "await_on_text"} => Has(i)
    /\ (\A i \in 1..Len(workers) : workers[i].pc = "exited") =>
           w_conv = TurnsOfReturned(1)

\* C32 as stated: in every interleaving of a cancelled run's cleanup with
\* the entry of the next run, the cleanup removes the user turn of its own
\* run and never the next run's, so that when all runs are over the
\* conversation is made of the user and assistant turns of the runs that
\* succeeded.
C32_RollbackOwnTurn == OwnTurnOnly

\* C32, as the app behaves: the cleanup removes its own user turn whenever
\* no cancelled run was held up between its CancelledError and its finally
\* block, that is when its cleanup ran before the next run was entered.
C32_RollbackWhenSerialized ==
    (\A i \in 1..Len(workers) : ~workers[i].late) => OwnTurnOnly

\* run 1 returned, run 2 was cancelled by the submission of run 3 while it
\* waited for a delta, and run 3 returned
C32_Witness ==
    /\ Len(workers) = 3
    /\ workers[1].outcome = "returned"
    /\ workers[2].outcome = "cancelled"
    /\ ~workers[2].late
    /\ workers[3].outcome = "returned"
    /\ w_conv = <<Turn("user", 1), Turn("assistant", 1),
                  Turn("user", 3), Turn("assistant", 3)>>

\* the task of the legacy run() is cancelled while the stream is awaited
LegacyCancelledAtStream == l_pc = "await_delta" /\ l_outcome' = "cancelled"

\* C33 as stated: when the task of the legacy run() is cancelled while it
\* awaits the inference stream, the user message appended on entry is
\* removed and the messages are what they were before the run.
C33_LegacyCancelRollsBack ==
    [][LegacyCancelledAtStream => l_messages' = l_messages0]_vars

\* C33, as the legacy run() behaves: when its task is cancelled while it
\* awaits the stream the messages are left as they are, the user turn of
\* the run last; the user turn is removed only on the error path, after
\* on_error has returned.
C33_LegacyCancelKeepsUserTurn ==
    [][/\ LegacyCancelledAtStream =>
              /\ l_messages' = l_messages
              /\ l_messages = Append(l_messages0, l_messages[Len(l_messages)])
              /\ l_messages[Len(l_messages)].role = "user"
       /\ (l_pc = "await_on_error" /\ l_outcome' = "returned") =>
              l_messages' = l_messages0]_vars

\* a legacy run was cancelled before any text came and left its user turn
C33_Witness ==
    /\ l_pc = "exited"
    /\ l_outcome = "cancelled"
    /\ l_runs = 1
    /\ l_acc = <<>>
    /\ l_bt = 0
    /\ Len(l_messages) = 1
    /\ l_messages[1].role = "user"

\* every stored record holds a leading part of the text c has accumulated
StoredArePrefixes(c) ==
    \A k \in DOMAIN c.checkpoints :
        LET r == c.checkpoints[k]
        IN  /\ StartsWith(c.accumulated, r.accumulated_text)
            /\ r.position = Len(r.accumulated_text)
            /\ r.position <= Len(c.accumulated)

\* C34: prefix invariant.  In every state of a run the accumulated_text of
\* each stored checkpoint is a prefix of the accumulated text, so that its
\* position is at most the length of that text; and an executed backtrack
\* leaves a text that is a leading part of the text before it, no longer
\* than it.
C34_PrefixInvariant ==
    [][/\ StoredArePrefixes(ctx')
       /\ Executed =>
              /\ StartsWith(ctx.accumulated, ctx'.accumulated)
              /\ Len(ctx'.accumulated) <= Len(ctx.accumulated)]_vars

\* after an executed backtrack the text has grown again beyond the record
\* it was rewound to
C34_Witness ==
    /\ pc = "await_delta"
    /\ ctx.bt_count = 1
    /\ \E k \in DOMAIN ctx.checkpoints :
           /\ ctx.checkpoints[k].position > 0
           /\ ctx.checkpoints[k].position < Len(ctx.accumulated)

\* the mode of c is a key of settings.modes, and its temperature override is
\* unset or within [0.0, 1.0]
ValidParameters(c) ==
    /\ c.mode \in DOMAIN modes
    /\ c.temperature = None \/ (0 <= Val(c.temperature) /\ Val(c.temperature) <= 10)

\* backtrack events to the stored record k: no mode, an empty mode name, an
\* unknown and a known mode, each with no temperature and with temperatures
\* below, at the ends of, and above the range
BacktrackEventsTo(k) ==
    {Backtrack(k, <<"r">>, None, m, t) :
        m \in {None, Some(<<>>), Some(<<"z", "z">>), Some(M_precise)},
        t \in {None, Some(0 - 1), Some(0), Some(10), Some(11), Some(15)}}

\* C35: the run's mode is always a key of settings.modes and its
\* temperature override is always unset or within [0.0, 1.0]; the lookup of
\* the mode's temperature at the start of an attempt never fails, on entry
\* and after any backtrack event, whether its mode is unknown, empty or
\* known and its temperature in or out of range (where a backtrack is
\* executed, each of these events in its place leaves such parameters).
C35_ModeAlwaysKnown ==
    [][/\ ValidParameters(ctx')
       /\ runs' # runs => pc' = "await_delta"
       /\ (pc = "await_on_backtrack" /\ pc' = "exited") => outcome' = "cancelled"
       /\ Executed =>
              \A k \in DOMAIN ctx.checkpoints : \A bt \in BacktrackEventsTo(k) :
                  ValidParameters(Rewind(ctx, Validate(bt)))]_vars

\* a backtrack with an unknown mode and temperature 1.5 was executed and the
\* next attempt was started with the default mode and no override
C35_Witness ==
    /\ pc = "await_delta"
    /\ last_delta = D_btBad
    /\ ctx.bt_count = 1
    /\ ctx.mode = default_mode
    /\ ctx.temperature = None
    /\ calls[Len(calls)].op = "stream"

\* the checkpoint ids of the backtracks executed so far in this run
ExecutedIds ==
    {calls[i].bt.checkpoint_id : i \in {j \in 1..Len(calls) : calls[j].op = "on_backtrack"}}

\* C36: the target of a backtrack survives it.  An executed backtrack to
\* the record r leaves r, and every other record with position <=
\* r.position, in the checkpoint set as it was; and a backtrack that names
\* the same id again at the start of a later attempt, no checkpoint having
\* been emitted since, is executed too while the budget lasts, and gets the
\* sentinel when it is used up.
C36_TargetSurvives ==
    [][/\ Executed =>
              /\ Head(pending).checkpoint_id \in DOMAIN ctx'.checkpoints
              /\ \A k \in DOMAIN ctx.checkpoints :
                     ctx.checkpoints[k].position <= Target.position =>
                         /\ k \in DOMAIN ctx'.checkpoints
                         /\ ctx'.checkpoints[k] = ctx.checkpoints[k]
       /\ (/\ Yielded
           /\ pc = "await_delta"
           /\ admit_marks = <<>>
           /\ YieldedTokens # <<>>
           /\ YieldedTokens[1].type = "Backtrack"
           /\ YieldedTokens[1].checkpoint_id \in ExecutedIds) =>
              IF ctx.bt_count < max_backtracks
              THEN /\ pc' = "await_cancel"
                   /\ Head(pending').checkpoint_id = YieldedTokens[1].checkpoint_id
              ELSE pc' = "await_on_text_exhausted"]_vars

\* checkpoint a was emitted once and two backtracks to it were executed
C36_Witness ==
    /\ pc = "await_on_backtrack"
    /\ runs = 1
    /\ deltas_used = 3
    /\ ctx.bt_count = 2
    /\ ExecutedIds = {<<"a">>}
    /\ <<"a">> \in DOMAIN ctx.checkpoints

\* msgs starts with a user turn, alternates user and assistant turns, and
\* ends with a user turn
Alternates(msgs) ==
    /\ Len(msgs) % 2 = 1
    /\ \A i \in 1..Len(msgs) :
           msgs[i].role = IF i % 2 = 1 THEN "user" ELSE "assistant"

\* C37: every message list passed to inference.stream, on first attempts
\* and on retries, in the first run and in the runs after it, starts with a
\* user turn, alternates user and assistant turns, and ends with a user
\* turn.
C37_RolesAlternate ==
    \A i \in 1..Len(calls) :
        calls[i].op = "stream" => Alternates(calls[i].messages)

\* in a second run a retry was sent the first run's two turns, the user
\* turn, the rewound text and the "Continue ..." turn
C37_Witness ==
    /\ runs = 2
    /\ Len(messages0) = 2
    /\ Len(calls) > 1
    /\ calls[Len(calls)].op = "stream"
    /\ Len(calls[Len(calls)].messages) = 5
    /\ calls[Len(calls)].messages[5] = Message("user", CONTINUE_PROMPT)

\* C38: termination.  With streams that yield finitely many deltas and then
\* end or raise, and callbacks that return, every run() that was entered
\* returns; when it has returned it has made at most 1 + max_backtracks
\* calls of inference.stream and has invoked exactly one of on_done and
\* on_error, once; and the restart after a backtrack goes on to the next
\* attempt: it invokes no on_error and does not leave run().
C38_Termination ==
    /\ (pc \in AwaitPoints) ~> (pc = "exited")
    /\ [](pc = "exited" =>
              /\ outcome = "returned"
              /\ StreamCalls <= 1 + max_backtracks
              /\ Count("on_done") + Count("on_error") = 1)
    /\ [][pc = "await_on_backtrack" =>
              /\ pc' = "await_delta"
              /\ calls' = Append(calls, calls'[Len(calls')])
              /\ calls'[Len(calls')].op = "stream"]_vars

\* a run returned through on_done after 1 + max_backtracks attempts
C38_Witness ==
    /\ pc = "exited"
    /\ outcome = "returned"
    /\ StreamCalls = 1 + max_backtracks
    /\ ctx.bt_count = max_backtracks
    /\ Count("on_done") = 1
    /\ Count("on_error") = 0

\* the buffer of a consumer that appends the argument of each on_text and
\* puts the text given to on_backtrack in place of what it holds
RECURSIVE ConsumerBuffer(_)
ConsumerBuffer(cs) ==
    IF cs = <<>> THEN <<>>
    ELSE LET ev == cs[Len(cs)]
             before == SubSeq(cs, 1, Len(cs) - 1)
         IN  IF ev.op = "on_backtrack" THEN ev.text
             ELSE IF ev.op = "on_text" THEN ConsumerBuffer(before) \o ev.text
             ELSE ConsumerBuffer(before)

\* C39: visible-text equivalence.  Whenever run() waits for the next delta
\* the consumer's buffer equals the accumulated text; and when on_done is
\* invoked its argument, the consumer's buffer and the content of the
\* assistant turn that was committed are equal, sentinels and the text of
\* the final flush included.
C39_VisibleTextEquivalence ==
    /\ pc = "await_delta" => ConsumerBuffer(calls) = ctx.accumulated
    /\ pc = "await_on_done" =>
           /\ LastCall.op = "on_done"
           /\ LastCall.text = ConsumerBuffer(calls)
           /\ messages[Len(messages)] = Message("assistant", LastCall.text)

\* on_done is invoked with the text of the rewind, the sentinel of a
\* backtrack over budget, "z" and the "<" that the final flush released
C39_Witness ==
    /\ pc = "await_on_done"
    /\ ctx.bt_count = max_backtracks
    /\ LastCall.text = BUDGET_EXHAUSTED \o <<"z", "<">>
    /\ ConsumerBuffer(calls) = LastCall.text

\* the stream yields one backtrack that names a checkpoint which the run
\* before stored and this run has not
FirstRunCheckpointNamed ==
    /\ Yielded
    /\ Len(YieldedTokens) = 1
    /\ YieldedTokens[1].type = "Backtrack"
    /\ YieldedTokens[1].checkpoint_id \in DOMAIN prev_run.checkpoints
    /\ YieldedTokens[1].checkpoint_id \notin DOMAIN ctx.checkpoints

\* C40: run isolation.  Whatever the run before left in its context
\* (backtracks used, checkpoints, mode, temperature override, hints, text),
\* run() starts with the context of a first run: no backtrack used, no
\* checkpoint, settings.default_mode, no override, no hint, no text, a fresh
\* parser, and a first request made of the conversation with the default
\* mode and no temperature; and a backtrack that names a checkpoint of the
\* run before is not executed: within budget it is dropped silently.
C40_RunIsolation ==
    [][/\ runs' # runs =>
              /\ ctx' = NewRunCtx
              /\ parser' = NewParser
              /\ pending' = <<>>
              /\ Len(calls') = 1
              /\ calls'[1].op = "stream"
              /\ calls'[1].messages = Append(messages, Message("user", user_message'))
              /\ calls'[1].mode = default_mode
              /\ calls'[1].temperature = None
              /\ calls'[1].system =
                     build_system_prompt(<<>>, max_hint_length, default_mode,
                                         modes[default_mode], modes)
       /\ FirstRunCheckpointNamed =>
              /\ ctx' = ctx
              /\ pc' # "await_cancel"
              /\ ctx.bt_count < max_backtracks => SilentDrop]_vars

\* the first run executed a backtrack that set mode precise and temperature
\* 1.0 and stored a again; in the second run a backtrack to a was dropped
C40_Witness ==
    /\ runs = 2
    /\ pc = "await_delta"
    /\ prev_run.bt_count = 1
    /\ prev_run.mode = M_precise
    /\ prev_run.temperature = Some(10)
    /\ <<"a">> \in DOMAIN prev_run.checkpoints
    /\ last_delta = D_btBad
    /\ ctx = NewRunCtx
    /\ Len(calls) = 1

=============================================================================
